---- MODULE Spec2Model ----
(***************************************************************************)
(* Knowledge-graph builder: the graph store service (EnhancedNeo4jService), *)
(* the extraction strategies and their coordinator (HybridNLPProcessor),    *)
(* and the request handlers that reconcile candidates into the store.       *)
(*                                                                          *)
(* Confidences are integers in hundredths (0.85 is 85).  A node is          *)
(* [id, type, properties]; its Cypher label is `type`, and `properties` is  *)
(* the node's flat property map, which holds label, confidence, aliases and *)
(* the timestamps next to the candidate's own properties.                   *)
(***************************************************************************)
EXTENDS Integers, Sequences, FiniteSets, TLC

VARIABLES
    nodes,      \* the nodes of the graph database
    edges,      \* the relationships of the graph database
    now,        \* datetime(): the number of store calls issued so far
    pc,         \* "idle", or "clearing" between the two queries of clearAllData
    call,       \* the last store call: its name, its arguments and what it returned
    hyb,        \* the coordinator's call in progress, if any
    req,        \* the request in progress, or the last one answered
    served      \* the requests answered so far, with the graph each one left

vars == <<nodes, edges, now, pc, call, hyb, req, served>>

----------------------------------------------------------------------------
(* Bounds *)

\* store calls in one behaviour
MaxOps == 4

\* words in a text given to the coordinator
MaxTextLen == 3

\* requests in one behaviour
MaxRequests == 2

----------------------------------------------------------------------------
(* Strings *)
(* A text and a label are sequences of words: "Steve Jobs" is <<"Steve", "Jobs">>  *)
(* and the words of a string are separated by one space.  What the code does to    *)
(* the letters of a word is tabulated for the words of the model.                  *)

\* the words a text is made of
Words == {"John", "Apple", "apple", "likes", "is", "a", "The"}

\* toLowerCase of one word
LowerWord(w) ==
    CASE w = "John" -> "john"
      [] w = "Apple" -> "apple"
      [] w = "The" -> "the"
      [] w = "Bob" -> "bob"
      [] w = "Likes" -> "likes"
      [] w = "Is" -> "is"
      [] w = "A" -> "a"
      [] w = "Pple" -> "pple"
      [] w = "AAPL" -> "aapl"
      [] OTHER -> w

\* charAt(0).toUpperCase() + slice(1).toLowerCase() of one word
CapitalizeWord(w) ==
    CASE LowerWord(w) = "john" -> "John"
      [] LowerWord(w) = "apple" -> "Apple"
      [] LowerWord(w) = "the" -> "The"
      [] LowerWord(w) = "bob" -> "Bob"
      [] LowerWord(w) = "likes" -> "Likes"
      [] LowerWord(w) = "is" -> "Is"
      [] LowerWord(w) = "a" -> "A"
      [] LowerWord(w) = "pple" -> "Pple"
      [] LowerWord(w) = "aapl" -> "Aapl"
      [] OTHER -> w

\* String.prototype.toLowerCase / Cypher toLower
toLower(s) == [i \in DOMAIN s |-> LowerWord(s[i])]

\* capitalizeFirst(str)
capitalizeFirst(s) ==
    [i \in DOMAIN s |-> IF i = 1 THEN CapitalizeWord(s[i]) ELSE LowerWord(s[i])]

RECURSIVE SumLen(_)
SumLen(s) == IF s = <<>> THEN 0 ELSE Len(Head(s)) + SumLen(Tail(s))

\* str.length
Length(s) == IF s = <<>> THEN 0 ELSE SumLen(s) + Len(s) - 1

----------------------------------------------------------------------------
(* Property maps *)

EmptyMap == [k \in {} |-> 0]

\* Cypher  n += $map : keys of the map are added or replaced, the others kept
PlusEquals(old, new) ==
    [k \in DOMAIN old \cup DOMAIN new |-> IF k \in DOMAIN new THEN new[k] ELSE old[k]]

\* Cypher  SET n.k = v
SetProp(m, k, v) == [x \in DOMAIN m \cup {k} |-> IF x = k THEN v ELSE m[x]]

\* Cypher  coalesce(n.k, d)
Coalesce(m, k, d) == IF k \in DOMAIN m THEN m[k] ELSE d

\* the confidence written when the caller gives none (or a falsy one)
DefaultConfidence == 80

\* JavaScript  x || DefaultConfidence  on a number: 0 is falsy
OrDefault(c) == IF c = 0 THEN DefaultConfidence ELSE c

----------------------------------------------------------------------------
(* Values returned by the service *)

NullResult == [kind |-> "null"]
VoidResult == [kind |-> "void"]

\* the Entity object built from a node record
EntityOf(n, type) ==
    [kind |-> "entity", id |-> n.id, label |-> n.properties.label, type |-> type,
     confidence |-> n.properties.confidence, aliases |-> n.properties.aliases]

\* the Relationship object built from a relationship record
RelationshipOf(e) ==
    [kind |-> "relationship", id |-> e.id, source |-> e.source, target |-> e.target,
     type |-> e.type, properties |-> e.properties,
     confidence |-> e.properties.confidence]

\* the smallest identities the database has free, k of them, in order
FreeIds(used, k) ==
    LET top == Cardinality(used) + k
        free == {i \in 1..top : i \notin used}
        Rank(i) == Cardinality({j \in free : j < i})
    IN {i \in free : Rank(i) < k}

----------------------------------------------------------------------------
(* createEntityWithMerge *)

\* MERGE (n:type {label: $label}) : the nodes the pattern matches
MergeMatches(ns, type, label) ==
    {n \in ns : n.type = type /\ Coalesce(n.properties, "label", <<>>) = label}

\* ON CREATE SET ...
OnCreate(id, entity, t) ==
    [id |-> id, type |-> entity.type,
     properties |->
        PlusEquals([label |-> entity.label,
                    confidence |-> OrDefault(entity.confidence),
                    aliases |-> entity.aliases,
                    created_at |-> t],
                   entity.properties)]

\* n.confidence = CASE WHEN $confidence > coalesce(n.confidence, 0) ...
MergedConfidence(old, incoming) == IF incoming > old THEN incoming ELSE old

\* n.aliases = coalesce(n.aliases, []) + $aliases
MergedAliases(old, incoming) == old \o incoming

\* ON MATCH SET ...
OnMatch(n, entity, t) ==
    LET p0 == n.properties
        p1 == SetProp(p0, "confidence",
                      MergedConfidence(Coalesce(p0, "confidence", 0),
                                       OrDefault(entity.confidence)))
        p2 == SetProp(p1, "aliases",
                      MergedAliases(Coalesce(p0, "aliases", <<>>), entity.aliases))
        p3 == SetProp(p2, "updated_at", t)
    IN [n EXCEPT !.properties = PlusEquals(p3, entity.properties)]

\* the identities of the nodes the MERGE returns (result.records)
MergeReturnedIds(ns, entity) ==
    LET M == MergeMatches(ns, entity.type, entity.label)
    IN IF M = {} THEN FreeIds({n.id : n \in ns}, 1) ELSE {n.id : n \in M}

\* the nodes after the query
CreateEntityWithMerge(ns, entity, t) ==
    LET M == MergeMatches(ns, entity.type, entity.label)
    IN IF M = {}
       THEN ns \cup {OnCreate(CHOOSE i \in FreeIds({n.id : n \in ns}, 1) : TRUE, entity, t)}
       ELSE (ns \ M) \cup {OnMatch(n, entity, t) : n \in M}

----------------------------------------------------------------------------
(* findEntityByLabelAndType, findRelationship, createRelationshipWithValidation *)

SeqToSet(s) == {s[i] : i \in DOMAIN s}

\* MATCH (n:type) WHERE toLower(n.label) = toLower($label) OR any(alias ...)
FindMatches(ns, label, type) ==
    {n \in ns :
        /\ n.type = type
        /\ \/ toLower(Coalesce(n.properties, "label", <<>>)) = toLower(label)
           \/ \E a \in SeqToSet(Coalesce(n.properties, "aliases", <<>>)) :
                 toLower(a) = toLower(label)}

\* RETURN n LIMIT 1 : what the call can return (the database picks the row)
FindEntityByLabelAndType(ns, label, type) ==
    IF FindMatches(ns, label, type) = {}
    THEN {NullResult}
    ELSE {EntityOf(n, type) : n \in FindMatches(ns, label, type)}

\* MATCH (a)-[r:type]->(b) WHERE id(a) = $sourceId AND id(b) = $targetId
FindRelationship(es, sourceId, targetId, type) ==
    IF {e \in es : e.source = sourceId /\ e.target = targetId /\ e.type = type} = {}
    THEN {NullResult}
    ELSE {RelationshipOf(e) :
            e \in {x \in es : x.source = sourceId /\ x.target = targetId /\ x.type = type}}

\* MATCH (a:sourceType {label: $sourceLabel}) MATCH (b:targetType {label: $targetLabel})
CreateRows(ns, r) ==
    {<<a.id, b.id>> : a \in MergeMatches(ns, r.sourceType, r.sourceLabel),
                      b \in MergeMatches(ns, r.targetType, r.targetLabel)}

\* CREATE (a)-[r:type]->(b) SET r += $properties SET r.created_at = datetime()
\* SET r.confidence = $confidence : one relationship per matched row
CreatedEdges(ns, es, r, t) ==
    LET rows == CreateRows(ns, r)
        ids  == FreeIds({e.id : e \in es}, Cardinality(rows))
        RowRank(row) == Cardinality({x \in rows :
                            x[1] < row[1] \/ (x[1] = row[1] /\ x[2] < row[2])})
        IdRank(i) == Cardinality({j \in ids : j < i})
    IN {[id |-> CHOOSE i \in ids : IdRank(i) = RowRank(row),
         source |-> row[1], target |-> row[2], type |-> r.type,
         properties |->
            SetProp(SetProp(PlusEquals(EmptyMap, r.properties), "created_at", t),
                    "confidence",
                    OrDefault(Coalesce(r.properties, "confidence", 0)))] : row \in rows}

\* NotFoundOutcome, had the handler raised instead of returning null
NotFoundThrows(es) == [edges |-> es, results |-> {[kind |-> "throw"]}]

\* return null : an endpoint was not found, or the CREATE matched no row
NotFoundOutcome(es) == [edges |-> es, results |-> {NullResult}]

\* return existingRel : the relationships are left as they are
ExistingOutcome(es, existing, r) == [edges |-> es, results |-> existing]

\* the call, once both endpoints were looked up: [edges, results], the relationships
\* after the call and the values it can return
CreateRelationshipWithValidation(ns, es, sourceEntity, targetEntity, r, t) ==
    IF sourceEntity.kind = "null" \/ targetEntity.kind = "null"
    THEN NotFoundOutcome(es)
    ELSE IF FindRelationship(es, sourceEntity.id, targetEntity.id, r.type) # {NullResult}
    THEN ExistingOutcome(es,
            FindRelationship(es, sourceEntity.id, targetEntity.id, r.type), r)
    ELSE IF CreatedEdges(ns, es, r, t) = {}
    THEN NotFoundOutcome(es)
    ELSE [edges |-> es \cup CreatedEdges(ns, es, r, t),
          results |-> {RelationshipOf(e) : e \in CreatedEdges(ns, es, r, t)}]

----------------------------------------------------------------------------
(* clearAllData, getAllEntitiesAndRelationships *)

\* DeleteAllRelationships, had the pattern matched no relationship
DeleteNoRelationships(es) == es

\* MATCH ()-[r]-() DELETE r
DeleteAllRelationships(es) == {}

\* DeleteAllNodes, had the pattern been limited to one node label
DeleteNodesOfOneType(ns, es) == IF es = {} THEN {n \in ns : n.type # "COMPANY"} ELSE ns

\* MATCH (n) DELETE n : the database refuses to delete a node that still has
\* relationships, and then the query deletes nothing
DeleteAllNodes(ns, es) == IF es = {} THEN {} ELSE ns

\* the place of a word in Cypher's order of strings (code points)
WordRank(w) ==
    CASE w = "AAPL" -> 1
      [] w = "Apple" -> 2
      [] w = "Bob" -> 3
      [] w = "John" -> 4
      [] w = "Pple" -> 5
      [] w = "The" -> 6
      [] w = "Unknown" -> 7
      [] w = "a" -> 8
      [] w = "apple" -> 9
      [] w = "is" -> 10
      [] w = "likes" -> 11
      [] OTHER -> 12

\* a <= b for two strings: word by word, a prefix first (a space sorts before a letter)
RECURSIVE StringLeq(_, _)
StringLeq(a, b) ==
    IF a = <<>> THEN TRUE
    ELSE IF b = <<>> THEN FALSE
    ELSE IF Head(a) = Head(b) THEN StringLeq(Tail(a), Tail(b))
    ELSE WordRank(Head(a)) < WordRank(Head(b))

\* JavaScript  x || 1.0  on a confidence
OrOne(c) == IF c = 0 THEN 100 ELSE c

\* the sequences that list every element of S once
Orderings(S) ==
    {f \in [1..Cardinality(S) -> S] : \A i, j \in 1..Cardinality(S) : f[i] = f[j] => i = j}

\* ORDER BY coalesce(n.confidence, 1.0) DESC, n.label
EntityOrder(a, b) ==
    \/ Coalesce(a.properties, "confidence", 100) > Coalesce(b.properties, "confidence", 100)
    \/ /\ Coalesce(a.properties, "confidence", 100) = Coalesce(b.properties, "confidence", 100)
       /\ StringLeq(Coalesce(a.properties, "label", <<>>),
                    Coalesce(b.properties, "label", <<>>))

\* ORDER BY coalesce(r.confidence, 1.0) DESC
RelationshipOrder(a, b) ==
    Coalesce(a.properties, "confidence", 100) >= Coalesce(b.properties, "confidence", 100)

\* the Entity object of a snapshot row
SnapshotEntity(n) ==
    [id |-> n.id,
     label |-> Coalesce(n.properties, "label", <<"Unknown">>),
     type |-> n.type,
     properties |-> n.properties,
     confidence |-> OrOne(Coalesce(n.properties, "confidence", 0)),
     aliases |-> Coalesce(n.properties, "aliases", <<>>)]

\* the Relationship object of a snapshot row
SnapshotRelationship(e) ==
    [id |-> e.id, source |-> e.source, target |-> e.target, type |-> e.type,
     properties |-> e.properties,
     confidence |-> OrOne(Coalesce(e.properties, "confidence", 0))]

\* what getAllEntitiesAndRelationships can return (rows that tie come in any order)
GetAllEntitiesAndRelationships(ns, es) ==
    {[entities |-> [i \in DOMAIN f |-> SnapshotEntity(f[i])],
      relationships |-> [i \in DOMAIN g |-> SnapshotRelationship(g[i])]] :
        f \in {x \in Orderings(ns) :
                 \A i, j \in DOMAIN x : i < j => EntityOrder(x[i], x[j])},
        g \in {x \in Orderings(es) :
                 \A i, j \in DOMAIN x : i < j => RelationshipOrder(x[i], x[j])}}

----------------------------------------------------------------------------
(* Sequences *)

Largest(S) == CHOOSE x \in S : \A y \in S : y <= x

\* Array.prototype.flat of a sequence of sequences
\* (the list is bound as a value, worked out once)
RECURSIVE Flat(_)
Flat(ss) ==
    IF ss = <<>> THEN <<>>
    ELSE CHOOSE flat \in {Head(list) \o Flat(Tail(list)) : list \in {ss}} : TRUE

\* items.sort((a, b) => b.confidence - a.confidence): descending, stable on ties
\* (the list and its highest confidence are bound as values, worked out once)
RECURSIVE SortByConfidence(_)
SortByConfidence(items) ==
    IF items = <<>> THEN <<>>
    ELSE CHOOSE sorted \in
            {SelectSeq(list, LAMBDA e : e.confidence = top)
             \o SortByConfidence(SelectSeq(list, LAMBDA e : e.confidence # top)) :
                list \in {items},
                top \in {Largest({items[i].confidence : i \in DOMAIN items})}} : TRUE

\* the lowercased labels of a list of entities
LabelsOf(entities) == {toLower(entities[i].label) : i \in DOMAIN entities}

----------------------------------------------------------------------------
(* LocalNLPProcessor: the pattern rules, word by word *)

\* /^[A-Z][a-z]+$/
IsCapitalized(w) == Len(w) >= 2 /\ w = CapitalizeWord(w) /\ w # LowerWord(w)

\* /^[a-z]+$/
IsLowercase(w) == w = LowerWord(w) /\ w # CapitalizeWord(w)

\* /^[A-Z][a-z]+$/i
IsWord(w) == Len(w) >= 2 /\ IsLowercase(LowerWord(w))

\* the rule groups in the order Object.entries yields them; `words` are the
\* alternatives of the rule, lowercased because the rule ignores letter case
ENTITY_PATTERNS ==
    <<[type |-> "PERSON", kind |-> "capitalized", words |-> {}],
      [type |-> "PERSON", kind |-> "titled",
       words |-> {<<"mr">>, <<"mrs">>, <<"dr">>, <<"prof">>, <<"sir">>, <<"madam">>,
                  <<"miss">>}],
      [type |-> "ORGANIZATION", kind |-> "suffixed",
       words |-> {<<"inc">>, <<"corp">>, <<"llc">>, <<"ltd">>, <<"company">>,
                  <<"university">>, <<"school">>, <<"college">>}],
      [type |-> "ORGANIZATION", kind |-> "listed",
       words |-> {<<"google">>, <<"microsoft">>, <<"apple">>, <<"tesla">>, <<"spacex">>,
                  <<"openai">>, <<"facebook">>, <<"amazon">>, <<"netflix">>, <<"uber">>}],
      [type |-> "LOCATION", kind |-> "suffixed",
       words |-> {<<"city">>, <<"state">>, <<"country">>, <<"street">>, <<"avenue">>,
                  <<"road">>, <<"place">>, <<"park">>}],
      [type |-> "LOCATION", kind |-> "listed",
       words |-> {<<"new", "york">>, <<"los", "angeles">>, <<"london">>, <<"paris">>,
                  <<"tokyo">>, <<"delhi">>, <<"mumbai">>, <<"california">>, <<"texas">>,
                  <<"india">>, <<"usa">>, <<"america">>}],
      [type |-> "FOOD", kind |-> "listed",
       words |-> {<<"apple">>, <<"mango">>, <<"banana">>, <<"orange">>, <<"pizza">>,
                  <<"burger">>, <<"sandwich">>, <<"rice">>, <<"bread">>, <<"cake">>,
                  <<"cookie">>, <<"chocolate">>, <<"ice", "cream">>, <<"coffee">>,
                  <<"tea">>, <<"milk">>, <<"water">>, <<"juice">>}],
      [type |-> "TECHNOLOGY", kind |-> "listed",
       words |-> {<<"computer">>, <<"laptop">>, <<"phone">>, <<"smartphone">>,
                  <<"tablet">>, <<"software">>, <<"app">>, <<"website">>, <<"internet">>,
                  <<"ai">>, <<"robot">>, <<"drone">>}],
      [type |-> "OBJECT", kind |-> "listed",
       words |-> {<<"car">>, <<"bike">>, <<"house">>, <<"book">>, <<"pen">>, <<"paper">>,
                  <<"chair">>, <<"table">>, <<"door">>, <<"window">>, <<"bag">>, <<"box">>,
                  <<"bottle">>, <<"cup">>, <<"glass">>}]>>

\* the number of capitalized words in a row from word i on
RECURSIVE CapitalizedRun(_, _)
CapitalizedRun(text, i) ==
    IF i <= Len(text) /\ IsCapitalized(text[i]) THEN 1 + CapitalizedRun(text, i + 1)
    ELSE 0

\* the same with the i flag
RECURSIVE WordRun(_, _)
WordRun(text, i) ==
    IF i <= Len(text) /\ IsWord(text[i]) THEN 1 + WordRun(text, i + 1) ELSE 0

\* how many words an entity rule matches at word i (0: no match there)
EntityMatchLength(p, text, i) ==
    CASE p.kind = "capitalized" -> CapitalizedRun(text, i)
      [] p.kind = "titled" ->
            IF <<LowerWord(text[i])>> \in p.words /\ WordRun(text, i + 1) > 0
            THEN 1 + WordRun(text, i + 1) ELSE 0
      [] p.kind = "suffixed" ->
            IF IsWord(text[i]) /\ i < Len(text) /\ <<LowerWord(text[i + 1])>> \in p.words
            THEN 2 ELSE 0
      [] p.kind = "listed" ->
            LET ks == {k \in 1..(Len(text) - i + 1) :
                          toLower(SubSeq(text, i, i + k - 1)) \in p.words}
            IN IF ks = {} THEN 0 ELSE Largest(ks)

\* match[1] || match[0]: a titled match captures the title as its first group
EntityLabel(p, text, i, k) ==
    IF p.kind = "titled" THEN <<text[i]>> ELSE SubSeq(text, i, i + k - 1)

\* while ((match = pattern.exec(text)) !== null): the labels matched from word i
\* on, leftmost first, not overlapping
RECURSIVE EntityMatches(_, _, _)
EntityMatches(p, text, i) ==
    IF i > Len(text) THEN <<>>
    ELSE LET k == EntityMatchLength(p, text, i)
         IN IF k = 0 THEN EntityMatches(p, text, i + 1)
            ELSE <<EntityLabel(p, text, i, k)>> \o EntityMatches(p, text, i + k)

\* context.includes(phrase), both lowercased
Includes(context, phrase) ==
    \E i \in 1..(Len(context) - Len(phrase) + 1) :
        toLower(SubSeq(context, i, i + Len(phrase) - 1)) = phrase

commonNames ==
    {"ram", "john", "mary", "david", "sarah", "mike", "anna", "tom", "lisa", "alex",
     "sam", "emma", "jack", "lucy"}

guessEntityType(word, context) ==
    LET lowerWord == LowerWord(word)
    IN IF Includes(context, <<lowerWord, "eats">>)
          \/ Includes(context, <<lowerWord, "lives">>) THEN "PERSON"
       ELSE IF Includes(context, <<"eat", lowerWord>>)
               \/ Includes(context, <<"eating", lowerWord>>) THEN "FOOD"
       ELSE IF lowerWord \in commonNames THEN "PERSON"
       ELSE "CONCEPT"

commonNouns ==
    {"apple", "mango", "banana", "orange", "book", "car", "house", "dog", "cat",
     "computer", "phone", "table", "chair", "food", "water", "coffee", "tea", "pizza",
     "burger"}

isLikelyNoun(word) == LowerWord(word) \in commonNouns

\* the candidates of the typed rules, in rule order then text order
PatternCandidates(text) ==
    Flat([j \in DOMAIN ENTITY_PATTERNS |->
            LET p == ENTITY_PATTERNS[j]
                ms == EntityMatches(p, text, 1)
            IN [m \in DOMAIN ms |->
                  [normalized |-> toLower(ms[m]),
                   claimable |-> Length(toLower(ms[m])) > 1,
                   entity |-> [label |-> capitalizeFirst(ms[m]), type |-> p.type,
                               confidence |-> 85, aliases |-> <<>>,
                               properties |-> [context |-> text,
                                               extractedBy |-> "local-nlp"]]]]])

\* the candidates of the pass over the capitalized words
CapitalizedCandidates(text) ==
    LET ws == SelectSeq(text, IsCapitalized)
    IN [m \in DOMAIN ws |->
          [normalized |-> <<LowerWord(ws[m])>>,
           claimable |-> Len(ws[m]) > 2,
           entity |-> [label |-> <<ws[m]>>, type |-> guessEntityType(ws[m], text),
                       confidence |-> 70, aliases |-> <<>>,
                       properties |-> [context |-> text, extractedBy |-> "local-nlp",
                                       guessed |-> TRUE]]]]

\* the candidates of the pass over the lowercase words
NounCandidates(text) ==
    LET ws == SelectSeq(text, IsLowercase)
    IN [m \in DOMAIN ws |->
          [normalized |-> <<ws[m]>>,
           claimable |-> Len(ws[m]) > 2 /\ isLikelyNoun(ws[m]),
           entity |-> [label |-> capitalizeFirst(<<ws[m]>>), type |-> "OBJECT",
                       confidence |-> 60, aliases |-> <<>>,
                       properties |-> [context |-> text, extractedBy |-> "local-nlp",
                                       commonNoun |-> TRUE]]]]

\* the variant of the claiming that goes through the candidates from the last one
RECURSIVE ClaimLatest(_, _)
ClaimLatest(candidates, foundEntities) ==
    IF candidates = <<>> THEN <<>>
    ELSE LET c == candidates[Len(candidates)]
             front == SubSeq(candidates, 1, Len(candidates) - 1)
         IN IF c.claimable /\ c.normalized \notin foundEntities
            THEN ClaimLatest(front, foundEntities \cup {c.normalized}) \o <<c.entity>>
            ELSE ClaimLatest(front, foundEntities)

\* a candidate becomes an entity unless its lowercased label is in foundEntities
RECURSIVE Claim(_, _)
Claim(candidates, foundEntities) ==
    IF candidates = <<>> THEN <<>>
    ELSE LET c == Head(candidates)
         IN IF c.claimable /\ c.normalized \notin foundEntities
            THEN <<c.entity>> \o Claim(Tail(candidates), foundEntities \cup {c.normalized})
            ELSE Claim(Tail(candidates), foundEntities)

\* (the list of candidates is bound as a value, worked out once)
extractEntities(text) ==
    CHOOSE entities \in
        {Claim(candidates, {}) :
            candidates \in {PatternCandidates(text) \o CapitalizedCandidates(text)
                               \o NounCandidates(text)}} : TRUE

RELATIONSHIP_PATTERNS ==
    <<[type |-> "EATS", confidence |-> 90, article |-> FALSE,
       verbs |-> {<<"eat">>, <<"eats">>, <<"eating">>, <<"ate">>}],
      [type |-> "LOVES", confidence |-> 90, article |-> FALSE,
       verbs |-> {<<"love">>, <<"loves">>, <<"loving">>, <<"loved">>}],
      [type |-> "LIKES", confidence |-> 90, article |-> FALSE,
       verbs |-> {<<"like">>, <<"likes">>, <<"liking">>, <<"liked">>}],
      [type |-> "WORKS_AT", confidence |-> 80, article |-> FALSE,
       verbs |-> {<<"work", "at">>, <<"works", "at">>, <<"employed", "by">>}],
      [type |-> "LIVES_IN", confidence |-> 80, article |-> FALSE,
       verbs |-> {<<"live", "in">>, <<"lives", "in">>, <<"reside", "in">>,
                  <<"resides", "in">>}],
      [type |-> "KNOWS", confidence |-> 80, article |-> FALSE,
       verbs |-> {<<"know">>, <<"knows">>, <<"knowing">>, <<"knew">>}],
      [type |-> "OWNS", confidence |-> 80, article |-> FALSE,
       verbs |-> {<<"own">>, <<"owns">>, <<"owning">>, <<"owned">>}],
      [type |-> "USES", confidence |-> 80, article |-> FALSE,
       verbs |-> {<<"use">>, <<"uses">>, <<"using">>, <<"used">>}],
      [type |-> "HAS", confidence |-> 70, article |-> FALSE,
       verbs |-> {<<"has">>, <<"have">>, <<"having">>, <<"had">>}],
      [type |-> "READS", confidence |-> 80, article |-> FALSE,
       verbs |-> {<<"read">>, <<"reads">>, <<"reading">>}],
      [type |-> "DRIVES", confidence |-> 80, article |-> FALSE,
       verbs |-> {<<"drive">>, <<"drives">>, <<"driving">>, <<"drove">>}],
      [type |-> "PLAYS", confidence |-> 80, article |-> FALSE,
       verbs |-> {<<"play">>, <<"plays">>, <<"playing">>, <<"played">>}],
      [type |-> "TEACHES", confidence |-> 80, article |-> FALSE,
       verbs |-> {<<"teache">>, <<"teaches">>, <<"teaching">>, <<"taught">>}],
      [type |-> "STUDIES", confidence |-> 80, article |-> FALSE,
       verbs |-> {<<"studie">>, <<"studies">>, <<"studying">>, <<"studied">>}],
      [type |-> "IS_A", confidence |-> 70, article |-> TRUE,
       verbs |-> {<<"is">>, <<"are">>, <<"was">>, <<"were">>}]>>

\* (?:a|an|the)?\s*(\w+) on a word that is exactly an article: the article group
\* takes it and the last group takes the word after it, if there is one
IsArticle(w) == LowerWord(w) \in {"a", "the"}

\* (?:a|an|the)?\s*(\w+) on any other word: the article group takes a leading
\* a, an or the off the word and the last group is left with the rest of it
ArticleRest(w) ==
    CASE w = "apple" -> "pple"
      [] w = "Apple" -> "pple"
      [] w = "an" -> "n"
      [] OTHER -> w

\* what a relationship rule matches at word i: (\w+), the verb, (\w+)
RelationshipMatch(p, text, i) ==
    LET ks == {k \in 1..2 : /\ i + k + 1 <= Len(text)
                            /\ toLower(SubSeq(text, i + 1, i + k)) \in p.verbs}
    IN IF ks = {} THEN [len |-> 0]
       ELSE LET j == i + Largest(ks) + 1
            IN IF ~p.article
               THEN [len |-> j - i + 1, source |-> text[i], target |-> text[j]]
               ELSE IF IsArticle(text[j]) /\ j < Len(text)
               THEN [len |-> j - i + 2, source |-> text[i], target |-> text[j + 1]]
               ELSE [len |-> j - i + 1, source |-> text[i],
                     target |-> ArticleRest(text[j])]

\* the matches of a relationship rule from word i on, leftmost first, not overlapping
RECURSIVE RelationshipMatches(_, _, _)
RelationshipMatches(p, text, i) ==
    IF i > Len(text) THEN <<>>
    ELSE LET m == RelationshipMatch(p, text, i)
         IN IF m.len = 0 THEN RelationshipMatches(p, text, i + 1)
            ELSE <<[source |-> capitalizeFirst(<<m.source>>),
                    target |-> capitalizeFirst(<<m.target>>),
                    type |-> p.type, confidence |-> p.confidence,
                    context |-> SubSeq(text, i, i + m.len - 1),
                    properties |-> [extractedBy |-> "local-nlp",
                                    originalMatch |-> SubSeq(text, i, i + m.len - 1)]]>>
                 \o RelationshipMatches(p, text, i + m.len)

\* sourceExists && targetExists && source.toLowerCase() !== target.toLowerCase()
BetweenEntities(rel, entities) ==
    /\ toLower(rel.source) \in LabelsOf(entities)
    /\ toLower(rel.target) \in LabelsOf(entities)
    /\ toLower(rel.source) # toLower(rel.target)

extractRelationships(text, entities) ==
    Flat([j \in DOMAIN RELATIONSHIP_PATTERNS |->
            SelectSeq(RelationshipMatches(RELATIONSHIP_PATTERNS[j], text, 1),
                      LAMBDA rel : BetweenEntities(rel, entities))])

\* LocalNLPProcessor.filterEntities: the loop over the entities
RECURSIVE LocalDistinct(_, _)
LocalDistinct(entities, seen) ==
    IF entities = <<>> THEN <<>>
    ELSE LET normalizedLabel == toLower(Head(entities).label)
         IN IF Length(normalizedLabel) > 1 /\ normalizedLabel \notin seen
            THEN <<Head(entities)>>
                 \o LocalDistinct(Tail(entities), seen \cup {normalizedLabel})
            ELSE LocalDistinct(Tail(entities), seen)

LocalFilterEntities(entities) == SortByConfidence(LocalDistinct(entities, {}))

LocalFilterRelationships(relationships, entities) ==
    SelectSeq(relationships, LAMBDA rel : BetweenEntities(rel, entities))

\* LocalNLPProcessor.extractEntitiesAndRelationships(text)
\* (the list of entities is bound as a value, worked out once)
LocalExtract(text) ==
    CHOOSE result \in
        {[entities |-> LocalFilterEntities(entities),
          relationships |->
              LocalFilterRelationships(extractRelationships(text, entities), entities)] :
            entities \in {extractEntities(text)}} : TRUE

----------------------------------------------------------------------------
(* GeminiNLPProcessor: what it does with the reply of the model *)

technicalTerms ==
    {"pdf", "docx", "file", "text", "document", "conversion", "selectable", "parsing",
     "extraction", "processing", "format", "content", "stream", "object",
     "implementation", "library", "javascript", "mammoth", "buffer", "array", "string",
     "method", "function", "class"}

\* technicalTerms.some((tech) => term.toLowerCase().includes(tech)), for a term
\* whose words hold a technical term only as a whole word
isTechnicalTerm(term) == \E i \in DOMAIN term : LowerWord(term[i]) \in technicalTerms

veryGenericWords ==
    {"a", "an", "the", "this", "that", "these", "those",
     "very", "quite", "rather", "some", "any", "all"}

\* /^\d+$/
Numerals == {"7", "42"}

isVeryGenericEntity(entity) ==
    \/ entity.label = <<>>
    \/ /\ Len(entity.label) = 1
       /\ \/ LowerWord(entity.label[1]) \in veryGenericWords
          \/ entity.label[1] \in Numerals
          \/ Len(entity.label[1]) = 1 /\ IsLowercase(LowerWord(entity.label[1]))

\* GeminiNLPProcessor.filterEntities: the loop over the entities
RECURSIVE GeminiDistinct(_, _)
GeminiDistinct(entities, seen) ==
    IF entities = <<>> THEN <<>>
    ELSE LET entity == Head(entities)
             normalizedLabel == toLower(entity.label)
         IN IF /\ entity.label # <<>>
               /\ ~isTechnicalTerm(entity.label)
               /\ Length(normalizedLabel) > 0
               /\ normalizedLabel \notin seen
               /\ ~isVeryGenericEntity(entity)
            THEN <<entity>> \o GeminiDistinct(Tail(entities), seen \cup {normalizedLabel})
            ELSE GeminiDistinct(Tail(entities), seen)

GeminiFilterEntities(entities) == SortByConfidence(GeminiDistinct(entities, {}))

\* the variant of filterRelationships without the test rel.confidence >= 0.7
FilterWithoutFloor(relationships, entities) ==
    SelectSeq(relationships,
              LAMBDA rel : /\ rel.source # <<>>
                           /\ rel.target # <<>>
                           /\ ~isTechnicalTerm(rel.source)
                           /\ ~isTechnicalTerm(rel.target)
                           /\ BetweenEntities(rel, entities))

GeminiFilterRelationships(relationships, entities) ==
    SelectSeq(relationships,
              LAMBDA rel : /\ rel.source # <<>>
                           /\ rel.target # <<>>
                           /\ ~isTechnicalTerm(rel.source)
                           /\ ~isTechnicalTerm(rel.target)
                           /\ BetweenEntities(rel, entities)
                           /\ rel.confidence >= 70)

\* extractEntitiesAndRelationshipsInOneCall: a reply that has no content, that
\* does not parse, or a call that fails, gives the empty result; a parsed reply
\* is passed on as it is
InOneCall(reply) ==
    IF reply.kind = "parsed"
    THEN [kind |-> "value", entities |-> reply.entities,
          relationships |-> reply.relationships]
    ELSE IF reply.kind = "misshapen"
    THEN [kind |-> "misshapen"]
    ELSE [kind |-> "value", entities |-> <<>>, relationships |-> <<>>]

\* GeminiNLPProcessor.extractEntitiesAndRelationships: the filtered result, or the
\* error rethrown when the parsed reply is not made of lists
GeminiExtract(reply) ==
    LET result == InOneCall(reply)
    IN IF result.kind = "misshapen" THEN [kind |-> "throw"]
       ELSE [kind |-> "result",
             entities |-> GeminiFilterEntities(result.entities),
             relationships |->
                 GeminiFilterRelationships(result.relationships, result.entities)]

----------------------------------------------------------------------------
(* HybridNLPProcessor *)

\* JavaScript  { ...a, ...b }
Spread(a, b) ==
    [k \in DOMAIN a \cup DOMAIN b |-> IF k \in DOMAIN b THEN b[k] ELSE a[k]]

\* the variant of enhanceLocalResults that leaves the method stamp out
EnhanceWithoutMethod(result, text) ==
    LET stamp == [enhanced |-> TRUE, originalText |-> text]
    IN [entities |-> [i \in DOMAIN result.entities |->
                        [result.entities[i] EXCEPT
                            !.properties = Spread(@, stamp)]],
        relationships |-> [i \in DOMAIN result.relationships |->
                        [result.relationships[i] EXCEPT
                            !.properties = Spread(@, stamp)]]]

enhanceLocalResults(result, text) ==
    LET stamp == [enhanced |-> TRUE, originalText |-> text, processingMethod |-> "local"]
    IN [entities |-> [i \in DOMAIN result.entities |->
                        [result.entities[i] EXCEPT
                            !.properties = Spread(@, stamp)]],
        relationships |-> [i \in DOMAIN result.relationships |->
                        [result.relationships[i] EXCEPT
                            !.properties = Spread(@, stamp)]]]

\* the variant of GeminiSuccessful that never takes Gemini's result
NeverSuccessful(external) == FALSE

\* result.entities.length > 0 || result.relationships.length > 0
GeminiSuccessful(external) ==
    /\ external.kind = "result"
    /\ external.entities # <<>> \/ external.relationships # <<>>

----------------------------------------------------------------------------
(* The calls a client of the service makes, one at a time *)

Ent(label, type, confidence, aliases, properties) ==
    [label |-> label, type |-> type, confidence |-> confidence,
     aliases |-> aliases, properties |-> properties]

Rel(sourceLabel, targetLabel, sourceType, targetType, type, properties) ==
    [sourceLabel |-> sourceLabel, targetLabel |-> targetLabel,
     sourceType |-> sourceType, targetType |-> targetType,
     type |-> type, properties |-> properties]

Labels == {<<"Apple">>, <<"apple">>, <<"Bob">>}
Types == {"COMPANY", "PERSON"}

\* the candidates a client upserts
EntityInputs ==
    {Ent(l, t, 50, <<>>, EmptyMap) : l \in Labels, t \in Types}
    \cup {Ent(<<"Apple">>, "COMPANY", c, <<>>, EmptyMap) : c \in {0, 90}}
    \cup {Ent(<<"Bob">>, "COMPANY", 50, << <<"Apple">> >>, EmptyMap)}
    \cup {Ent(<<"Apple">>, "COMPANY", 50, <<>>, p) :
            p \in {[note |-> "x"], [label |-> <<"Bob">>], [confidence |-> 10]}}

\* the relationships a client asks for
RelInputs ==
    {Rel(<<"Apple">>, <<"Bob">>, "COMPANY", "COMPANY", "LIKES", [confidence |-> 90]),
     Rel(<<"Bob">>, <<"Apple">>, "PERSON", "COMPANY", "LIKES", EmptyMap)}

NoCall == [op |-> "none"]
HybridIdle == [pc |-> "idle"]
NoRequest == [pc |-> "idle"]

Init ==
    /\ nodes = {}
    /\ edges = {}
    /\ now = 0
    /\ pc = "idle"
    /\ call = NoCall
    /\ hyb = HybridIdle
    /\ req = NoRequest
    /\ served = <<>>

NodeById(ns, i) == CHOOSE n \in ns : n.id = i

\* createEntityWithMerge(entity)
UpsertEntity(entity) ==
    /\ pc = "idle"
    /\ now < MaxOps
    /\ nodes' = CreateEntityWithMerge(nodes, entity, now)
    /\ \E i \in MergeReturnedIds(nodes, entity) :
          call' = [op |-> "createEntityWithMerge", entity |-> entity,
                   result |-> EntityOf(NodeById(nodes', i), entity.type)]
    /\ now' = now + 1
    /\ UNCHANGED <<edges, pc>>
    /\ UNCHANGED <<hyb, req, served>>

\* createRelationshipWithValidation(sourceLabel, targetLabel, sourceType, targetType,
\* relationshipType, properties)
CreateRelationship(r) ==
    /\ pc = "idle"
    /\ now < MaxOps
    /\ \E s \in FindEntityByLabelAndType(nodes, r.sourceLabel, r.sourceType),
          t \in FindEntityByLabelAndType(nodes, r.targetLabel, r.targetType) :
          LET out == CreateRelationshipWithValidation(nodes, edges, s, t, r, now)
          IN /\ edges' = out.edges
             /\ \E res \in out.results :
                   call' = [op |-> "createRelationshipWithValidation", rel |-> r,
                            sourceEntity |-> s, targetEntity |-> t, result |-> res]
    /\ now' = now + 1
    /\ UNCHANGED <<nodes, pc>>
    /\ UNCHANGED <<hyb, req, served>>

\* clearAllData, first query
ClearRelationships ==
    /\ pc = "idle"
    /\ now < MaxOps
    /\ edges' = DeleteAllRelationships(edges)
    /\ pc' = "clearing"
    /\ call' = [op |-> "clearAllData", result |-> [kind |-> "running"],
                relationshipsDeleted |-> Cardinality(edges), nodesDeleted |-> 0]
    /\ now' = now + 1
    /\ UNCHANGED nodes
    /\ UNCHANGED <<hyb, req, served>>

\* clearAllData, second query
ClearNodes ==
    /\ pc = "clearing"
    /\ nodes' = DeleteAllNodes(nodes, edges)
    /\ pc' = "idle"
    /\ call' = [call EXCEPT
                !.result = IF edges = {} THEN VoidResult ELSE [kind |-> "throw"],
                !.nodesDeleted = Cardinality(nodes) - Cardinality(nodes')]
    /\ UNCHANGED <<edges, now>>
    /\ UNCHANGED <<hyb, req, served>>

\* the process stops between the two queries of clearAllData
CrashInClear ==
    /\ pc = "clearing"
    /\ pc' = "idle"
    /\ call' = [call EXCEPT !.result = [kind |-> "crashed"]]
    /\ UNCHANGED <<nodes, edges, now>>
    /\ UNCHANGED <<hyb, req, served>>

\* getAllEntitiesAndRelationships
Snapshot ==
    /\ pc = "idle"
    /\ now < MaxOps
    /\ \E snap \in GetAllEntitiesAndRelationships(nodes, edges) :
          call' = [op |-> "getAllEntitiesAndRelationships",
                   result |-> [kind |-> "snapshot", entities |-> snap.entities,
                               relationships |-> snap.relationships]]
    /\ now' = now + 1
    /\ UNCHANGED <<nodes, edges, pc>>
    /\ UNCHANGED <<hyb, req, served>>

Next ==
    \/ \E entity \in EntityInputs : UpsertEntity(entity)
    \/ \E r \in RelInputs : CreateRelationship(r)
    \/ ClearRelationships
    \/ ClearNodes
    \/ CrashInClear
    \/ Snapshot

Spec == Init /\ [][Next]_vars

----------------------------------------------------------------------------
(* A client that works on relationships: upserts and createRelationship calls *)

RelEntityInputs ==
    {Ent(<<"Apple">>, "COMPANY", 50, <<>>, EmptyMap),
     Ent(<<"apple">>, "COMPANY", 50, <<>>, EmptyMap),
     Ent(<<"Bob">>, "COMPANY", 50, <<>>, EmptyMap),
     Ent(<<"Bob">>, "COMPANY", 50, << <<"Apple">> >>, EmptyMap),
     Ent(<<"Bob">>, "PERSON", 50, <<>>, EmptyMap)}

RelRelInputs ==
    {Rel(sl, tl, "COMPANY", "COMPANY", "LIKES", p) :
        sl \in {<<"Apple">>, <<"apple">>}, tl \in {<<"Bob">>},
        p \in {EmptyMap, [confidence |-> 90, context |-> "c"]}}
    \cup {Rel(<<"Apple">>, <<"Bob">>, "COMPANY", "PERSON", "LIKES", EmptyMap),
          Rel(<<"Apple">>, <<"Bob">>, "COMPANY", "COMPANY", "OWNS", EmptyMap)}

NextRel ==
    \/ \E entity \in RelEntityInputs : UpsertEntity(entity)
    \/ \E r \in RelRelInputs : CreateRelationship(r)

SpecRel == Init /\ [][NextRel]_vars

----------------------------------------------------------------------------
(* A client that upserts one entity again and again *)

MergeInputs ==
    {Ent(<<"Apple">>, "COMPANY", c, a, p) :
        c \in {0, 50, 90}, a \in {<<>>, << <<"AAPL">> >>}, p \in {EmptyMap, [note |-> "x"]}}

NextMerge ==
    \/ \E entity \in MergeInputs : UpsertEntity(entity)
    \/ Snapshot

SpecMerge == Init /\ [][NextMerge]_vars

----------------------------------------------------------------------------
(* A client that stores entities, some with a property named confidence, and *)
(* reads the graph                                                            *)

SnapshotInputs ==
    {Ent(<<"Apple">>, "COMPANY", 90, <<>>, EmptyMap),
     Ent(<<"Bob">>, "COMPANY", 50, <<>>, EmptyMap),
     Ent(<<"Bob">>, "PERSON", 50, <<>>, [confidence |-> 0])}

NextSnapshot ==
    \/ \E entity \in SnapshotInputs : UpsertEntity(entity)
    \/ \E r \in RelInputs : CreateRelationship(r)
    \/ Snapshot

SpecSnapshot == Init /\ [][NextSnapshot]_vars

----------------------------------------------------------------------------
(* A client whose property maps hold keys named like the fields of the entity *)

ReservedKeyInputs ==
    {Ent(<<"Apple">>, "COMPANY", c, << <<"AAPL">> >>, p) :
        c \in {50, 90},
        p \in {EmptyMap, [label |-> <<"Bob">>], [confidence |-> 10],
               [aliases |-> <<>>]}}

NextReserved ==
    \/ \E entity \in ReservedKeyInputs : UpsertEntity(entity)
    \/ Snapshot

SpecReserved == Init /\ [][NextReserved]_vars

----------------------------------------------------------------------------
(* The coordinator at work: HybridNLPProcessor.extractEntitiesAndRelationships *)

NoResult == [kind |-> "none"]

\* the call has been made and nothing of it has run yet
HybridStart(text, configured, reply) ==
    [pc |-> "start", text |-> text, configured |-> configured, reply |-> reply,
     geminiCalls |-> 0, localCalls |-> 0,
     external |-> NoResult, local |-> NoResult, result |-> NoResult]

\* if (process.env.GEMINI_API_KEY) { try { result = await geminiProcessor... } }
HybridGemini ==
    /\ hyb.pc = "start"
    /\ hyb.configured
    /\ hyb.reply.kind # "pending"
    /\ LET external == GeminiExtract(hyb.reply)
       IN hyb' = [hyb EXCEPT
                    !.geminiCalls = @ + 1,
                    !.external = external,
                    !.result = IF GeminiSuccessful(external) THEN external ELSE @,
                    !.pc = IF GeminiSuccessful(external) THEN "done" ELSE "fallback"]
    /\ UNCHANGED <<nodes, edges, now, pc, call, req, served>>

\* await model.generateContent(prompt) on a call that never settles: the code sets
\* no timer and races the call against nothing, so nothing follows
HybridGeminiPending ==
    /\ hyb.pc = "start"
    /\ hyb.configured
    /\ hyb.reply.kind = "pending"
    /\ hyb' = [hyb EXCEPT !.geminiCalls = @ + 1, !.pc = "awaiting"]
    /\ UNCHANGED <<nodes, edges, now, pc, call, req, served>>

\* no API key: the Gemini branch is skipped
HybridNotConfigured ==
    /\ hyb.pc = "start"
    /\ ~hyb.configured
    /\ hyb' = [hyb EXCEPT !.pc = "fallback"]
    /\ UNCHANGED <<nodes, edges, now, pc, call, req, served>>

\* the fallback: localProcessor, then enhanceLocalResults
HybridLocal ==
    /\ hyb.pc = "fallback"
    /\ \E local \in {LocalExtract(hyb.text)} :
          \E enhanced \in {enhanceLocalResults(local, hyb.text)} :
             hyb' = [hyb EXCEPT
                       !.localCalls = @ + 1,
                       !.local = [kind |-> "result", entities |-> local.entities,
                                  relationships |-> local.relationships],
                       !.result = [kind |-> "result", entities |-> enhanced.entities,
                                   relationships |-> enhanced.relationships],
                       !.pc = "done"]
    /\ UNCHANGED <<nodes, edges, now, pc, call, req, served>>

\* the texts of at most MaxTextLen words
Texts == UNION {[1..n -> Words] : n \in 1..MaxTextLen}

\* what the model answers
GeminiReplies ==
    {[kind |-> "unavailable"],
     [kind |-> "misshapen"],
     [kind |-> "parsed", entities |-> <<>>, relationships |-> <<>>],
     [kind |-> "parsed",
      entities |-> <<Ent(<<"The">>, "CONCEPT", 90, <<>>, EmptyMap)>>,
      relationships |-> <<[source |-> <<"Apple">>, target |-> <<"The">>, type |-> "LIKES",
                           confidence |-> 60, context |-> <<"Apple">>,
                           properties |-> EmptyMap]>>],
     [kind |-> "parsed",
      entities |-> <<Ent(<<"Apple">>, "COMPANY", 95, <<>>, EmptyMap),
                     Ent(<<"Bob">>, "PERSON", 90, <<>>, EmptyMap)>>,
      relationships |-> <<[source |-> <<"Apple">>, target |-> <<"Bob">>,
                           type |-> "FOUNDED_BY", confidence |-> 90,
                           context |-> <<"Apple">>, properties |-> EmptyMap]>>]}

\* the other ways a call fails inside extractEntitiesAndRelationshipsInOneCall:
\* response.text() is empty, or JSON.parse throws
FailureReplies == {[kind |-> "noContent"], [kind |-> "notJson"]}

\* a reply that parses and whose entity has a label and nothing else: its type
\* reads undefined, which the MERGE query spells out as the node label undefined,
\* and its confidence, aliases and properties take the defaults of the upsert
ItemShapeReplies ==
    {[kind |-> "parsed",
      entities |-> <<Ent(<<"Apple">>, "undefined", 0, <<>>, EmptyMap)>>,
      relationships |-> <<>>]}

\* a reply with a relationship to an entity that filterEntities drops as generic
FilteredEndpointReplies ==
    {[kind |-> "parsed",
      entities |-> <<Ent(<<"Apple">>, "COMPANY", 95, <<>>, EmptyMap),
                     Ent(<<"The">>, "CONCEPT", 90, <<>>, EmptyMap)>>,
      relationships |-> <<[source |-> <<"Apple">>, target |-> <<"The">>, type |-> "LIKES",
                           confidence |-> 90, context |-> <<"Apple">>,
                           properties |-> EmptyMap]>>]}

\* a reply with an entity whose label is one character that is neither a letter
\* nor a digit
ShortLabelReplies ==
    {[kind |-> "parsed",
      entities |-> <<Ent(<<"#">>, "CONCEPT", 90, <<>>, EmptyMap)>>,
      relationships |-> <<>>]}

\* a reply with a relationship below 0.7 and a relationship at 0.7, both between
\* entities of the reply
LowConfidenceReplies ==
    {[kind |-> "parsed",
      entities |-> <<Ent(<<"Apple">>, "COMPANY", 95, <<>>, EmptyMap),
                     Ent(<<"Bob">>, "PERSON", 90, <<>>, EmptyMap)>>,
      relationships |-> <<[source |-> <<"Apple">>, target |-> <<"Bob">>, type |-> "LIKES",
                           confidence |-> 60, context |-> <<"Apple">>,
                           properties |-> EmptyMap],
                          [source |-> <<"Apple">>, target |-> <<"Bob">>,
                           type |-> "FOUNDED_BY", confidence |-> 70,
                           context |-> <<"Apple">>, properties |-> EmptyMap]>>]}

\* the replies the coordinator is checked with
CoordinatorReplies ==
    GeminiReplies \cup FailureReplies \cup ItemShapeReplies \cup FilteredEndpointReplies
    \cup ShortLabelReplies \cup LowConfidenceReplies

InitHybrid ==
    /\ nodes = {}
    /\ edges = {}
    /\ now = 0
    /\ pc = "idle"
    /\ call = NoCall
    /\ req = NoRequest
    /\ served = <<>>
    /\ hyb \in {HybridStart(text, FALSE, [kind |-> "unavailable"]) : text \in Texts}
               \cup {HybridStart(text, TRUE, reply) :
                        text \in Texts, reply \in CoordinatorReplies}

NextHybrid ==
    \/ HybridGemini
    \/ HybridNotConfigured
    \/ HybridLocal

SpecHybrid == InitHybrid /\ [][NextHybrid]_vars

----------------------------------------------------------------------------
(* The process-text and process-file request handlers, one store call or     *)
(* one await at a time                                                       *)

\* what request.json() holds under the key text: nothing, a number, or a string
Falsy(body) ==
    \/ body.type = "undefined"
    \/ body.type = "number" /\ body.value = 0
    \/ body.type = "string" /\ body.value = <<>>

\* formData.get("file") when the form has no file
NoFile == [kind |-> "none"]

\* characters that /[^\w\s.,!?;:()\-'"]/g removes: a word made of them alone
StrippedWords == {"#"}

\* EnhancedFileProcessor.preprocessText: the characters outside the kept classes
\* are removed, the runs of white space become one space, the ends are trimmed
preprocessText(text) ==
    SelectSeq(text, LAMBDA w : w \notin StrippedWords)

\* a request as its handler starts: the locals of POST, the input kept for the
\* record (invalid: nothing to extract from), and what has been done so far
\* (the strategy whose result was returned, the store calls that failed, whether
\* the client has gone, the items the loops have reached and the items the store
\* has taken)
NewRequest(route, text, file, clearBefore, configured, reply, invalid) ==
    [pc |-> "received", route |-> route, text |-> text, file |-> file,
     clearBefore |-> clearBefore, configured |-> configured, reply |-> reply,
     entities |-> <<>>, relationships |-> <<>>, i |-> 1,
     processedEntities |-> <<>>, processedRelationships |-> <<>>,
     graphData |-> NoResult, status |-> 0, session |-> "none",
     invalid |-> invalid, strategy |-> "none", storeFailed |-> FALSE,
     cancelled |-> FALSE,
     attemptedEntities |-> 0, attemptedRelationships |-> 0,
     persistedEntities |-> 0, persistedRelationships |-> 0]

\* NextResponse.json(body, { status }) of the request r, with the graph it leaves
Response(r, status, body) ==
    [route |-> r.route, text |-> r.text, clearBefore |-> r.clearBefore,
     configured |-> r.configured, status |-> status, body |-> body,
     entities |-> r.entities, relationships |-> r.relationships,
     nodeIds |-> {n.id : n \in nodes}, edgeIds |-> {e.id : e \in edges},
     invalid |-> r.invalid, strategy |-> r.strategy, storeFailed |-> r.storeFailed,
     extractedEntities |-> Len(r.entities),
     extractedRelationships |-> Len(r.relationships),
     attemptedEntities |-> r.attemptedEntities,
     attemptedRelationships |-> r.attemptedRelationships,
     persistedEntities |-> r.persistedEntities,
     persistedRelationships |-> r.persistedRelationships]

\* the catch at the end of POST: { error, details } with status 500
ErrorBody(r, details) ==
    [error |-> IF r.route = "file" THEN "Failed to process file"
               ELSE "Failed to process text",
     details |-> details]

\* processingMethod: entities.length > 0 ? "gemini" : "local"
ProcessingMethod(entities) == IF Len(entities) > 0 THEN "gemini" ELSE "local"

\* the body of the response of a request that ran to its end: process-text adds
\* statistics, process-file adds fileInfo
SuccessBody(r) ==
    LET common == [success |-> TRUE,
                   entitiesCount |-> Len(r.processedEntities),
                   relationshipsCount |-> Len(r.processedRelationships),
                   entities |-> r.graphData.entities,
                   relationships |-> r.graphData.relationships,
                   processingMethod |-> ProcessingMethod(r.entities)]
    IN IF r.route = "file"
       THEN Spread(common, [fileInfo |-> [name |-> r.file.name,
                                          textLength |-> Length(r.text)]])
       ELSE Spread(common,
                   [statistics |->
                       [extractedEntities |-> Len(r.entities),
                        extractedRelationships |-> Len(r.relationships),
                        processedEntities |-> Len(r.processedEntities),
                        processedRelationships |-> Len(r.processedRelationships)]])

\* an exception leaves the handler: process-file closes the service in its inner
\* catch, process-text has no such catch and leaves the session open
Thrown(r) ==
    [r EXCEPT !.pc = "responded", !.status = 500,
              !.session = IF r.route = "file" THEN "closed" ELSE @]

\* process.env.GEMINI_API_KEY is read at every request and is set, or not, for
\* the life of the server
Environments ==
    {configured \in BOOLEAN : \A k \in DOMAIN served : served[k].configured = configured}

\* process-text: const { text, clearBefore = true } = await request.json(), and
\* the validation
Receive(body, clearBefore, configured, reply) ==
    /\ req.pc \in {"idle", "responded"}
    /\ Len(served) < MaxRequests
    /\ configured \in Environments
    /\ IF Falsy(body) \/ body.type # "string"
       THEN LET r == NewRequest("text", <<>>, NoFile, clearBefore, configured, reply,
                                TRUE)
            IN /\ req' = [r EXCEPT !.pc = "responded", !.status = 400]
               /\ served' = Append(served,
                                   Response(r, 400, [error |-> "Text is required"]))
       ELSE /\ req' = [NewRequest("text", body.value, NoFile, clearBefore,
                                  configured, reply, FALSE)
                       EXCEPT !.pc = IF clearBefore THEN "clearRelationships"
                                     ELSE "extract",
                              !.session = "open"]
            /\ UNCHANGED served
    /\ UNCHANGED <<nodes, edges, now, pc, call, hyb>>

\* process-file: formData.get("file"), formData.get("clearBefore") === "true",
\* and the validation
FileReceive(file, clearBefore, configured, reply) ==
    /\ req.pc \in {"idle", "responded"}
    /\ Len(served) < MaxRequests
    /\ configured \in Environments
    /\ IF file = NoFile
       THEN LET r == NewRequest("file", <<>>, file, clearBefore, configured, reply,
                                TRUE)
            IN /\ req' = [r EXCEPT !.pc = "responded", !.status = 400]
               /\ served' = Append(served,
                                   Response(r, 400, [error |-> "File is required"]))
       ELSE /\ req' = [NewRequest("file", <<>>, file, clearBefore, configured, reply,
                                  preprocessText(file.rawText) = <<>>)
                       EXCEPT !.pc = IF clearBefore THEN "clearRelationships"
                                     ELSE "readFile",
                              !.session = "open"]
            /\ UNCHANGED served
    /\ UNCHANGED <<nodes, edges, now, pc, call, hyb>>

\* await neo4jService.clearAllData(): the first query
ReqClearRelationships ==
    /\ req.pc = "clearRelationships"
    /\ edges' = DeleteAllRelationships(edges)
    /\ now' = now + 1
    /\ call' = [op |-> "clearAllData", result |-> [kind |-> "running"],
                relationshipsDeleted |-> Cardinality(edges), nodesDeleted |-> 0]
    /\ req' = [req EXCEPT !.pc = "clearNodes"]
    /\ UNCHANGED <<nodes, pc, hyb, served>>

\* await neo4jService.clearAllData(): the second query
ReqClearNodes ==
    /\ req.pc = "clearNodes"
    /\ nodes' = DeleteAllNodes(nodes, edges)
    /\ call' = [call EXCEPT
                !.result = IF edges = {} THEN VoidResult ELSE [kind |-> "throw"],
                !.nodesDeleted = Cardinality(nodes) - Cardinality(nodes')]
    /\ req' = [req EXCEPT !.pc = IF req.route = "file" THEN "readFile" ELSE "extract"]
    /\ UNCHANGED <<edges, now, pc, hyb, served>>

\* process-file: extractTextFromFile, preprocessText, and
\* if (cleanText.length === 0) throw new Error("No text content extracted from file")
FileRead ==
    /\ req.pc = "readFile"
    /\ LET cleanText == preprocessText(req.file.rawText)
       IN IF Len(cleanText) = 0
          THEN /\ req' = Thrown(req)
               /\ served' = Append(served,
                                   Response(req, 500,
                                            ErrorBody(req, "No text content extracted from file")))
          ELSE /\ req' = [req EXCEPT !.text = cleanText, !.pc = "extract"]
               /\ UNCHANGED served
    /\ UNCHANGED <<nodes, edges, now, pc, call, hyb>>

\* nlpProcessor.extractEntitiesAndRelationships(text) is called
ReqExtract ==
    /\ req.pc = "extract"
    /\ hyb' = HybridStart(req.text, req.configured, req.reply)
    /\ req' = [req EXCEPT !.pc = "extracting"]
    /\ UNCHANGED <<nodes, edges, now, pc, call, served>>

\* ... and returns
ReqExtracted ==
    /\ req.pc = "extracting"
    /\ hyb.pc = "done"
    /\ req' = [req EXCEPT !.entities = hyb.result.entities,
                          !.relationships = hyb.result.relationships,
                          !.strategy = IF hyb.localCalls > 0 THEN "local" ELSE "gemini",
                          !.i = 1, !.pc = "entities"]
    /\ hyb' = HybridIdle
    /\ UNCHANGED <<nodes, edges, now, pc, call, served>>

\* for (const entity of entities): one createEntityWithMerge
ReqUpsert ==
    /\ req.pc = "entities"
    /\ req.i <= Len(req.entities)
    /\ LET entity == req.entities[req.i]
       IN /\ nodes' = CreateEntityWithMerge(nodes, entity, now)
          /\ \E id \in MergeReturnedIds(nodes, entity) :
                LET newEntity == EntityOf(NodeById(nodes', id), entity.type)
                IN /\ call' = [op |-> "createEntityWithMerge", entity |-> entity,
                               result |-> newEntity]
                   /\ req' = [req EXCEPT
                                !.processedEntities = Append(@, newEntity),
                                !.attemptedEntities = @ + 1,
                                !.persistedEntities = @ + 1,
                                !.i = @ + 1]
    /\ now' = now + 1
    /\ UNCHANGED <<edges, pc, hyb, served>>

\* the loop skips to its end at the first error (not what the code does)
AbortsLoop(i, items) == Len(items) + 1

\* the catch inside a loop logs the error, and the loop takes its next item
AfterCaught(i, items) == i + 1

\* createEntityWithMerge rejects (the query fails and writes nothing): the error
\* is logged by the service, thrown again, and caught inside the loop
ReqUpsertFails ==
    /\ req.pc = "entities"
    /\ req.i <= Len(req.entities)
    /\ call' = [op |-> "createEntityWithMerge", entity |-> req.entities[req.i],
                result |-> [kind |-> "throw"]]
    /\ req' = [req EXCEPT !.attemptedEntities = @ + 1,
                          !.storeFailed = TRUE,
                          !.i = AfterCaught(@, req.entities)]
    /\ now' = now + 1
    /\ UNCHANGED <<nodes, edges, pc, hyb, served>>

\* the loop over the entities ends
ReqEntitiesDone ==
    /\ req.pc = "entities"
    /\ req.i > Len(req.entities)
    /\ req' = [req EXCEPT !.pc = "relationships", !.i = 1]
    /\ UNCHANGED <<nodes, edges, now, pc, call, hyb, served>>

\* processedEntities.find((e) => e.label.toLowerCase() === label.toLowerCase())
FindProcessed(processedEntities, label) ==
    LET hits == {i \in DOMAIN processedEntities :
                    toLower(processedEntities[i].label) = toLower(label)}
    IN IF hits = {} THEN NullResult
       ELSE processedEntities[CHOOSE i \in hits : \A j \in hits : i <= j]

\* the properties handed to createRelationshipWithValidation; process-file adds
\* source_file: file.name
RelationshipProperties(r, relationship) ==
    LET given == Spread(relationship.properties,
                        [confidence |-> relationship.confidence,
                         context |-> relationship.context])
    IN IF r.route = "file" THEN Spread(given, [source_file |-> r.file.name])
       ELSE given

\* for (const relationship of relationships): one createRelationshipWithValidation,
\* or none when an end is not among the processed entities
ReqRelate ==
    /\ req.pc = "relationships"
    /\ req.i <= Len(req.relationships)
    /\ LET relationship == req.relationships[req.i]
           sourceEntity == FindProcessed(req.processedEntities, relationship.source)
           targetEntity == FindProcessed(req.processedEntities, relationship.target)
       IN IF sourceEntity.kind = "null" \/ targetEntity.kind = "null"
          THEN /\ req' = [req EXCEPT !.attemptedRelationships = @ + 1, !.i = @ + 1]
               /\ UNCHANGED <<edges, now, call>>
          ELSE LET r == Rel(sourceEntity.label, targetEntity.label,
                            sourceEntity.type, targetEntity.type, relationship.type,
                            RelationshipProperties(req, relationship))
               IN \E s \in FindEntityByLabelAndType(nodes, r.sourceLabel, r.sourceType),
                     t \in FindEntityByLabelAndType(nodes, r.targetLabel, r.targetType) :
                     LET out == CreateRelationshipWithValidation(nodes, edges, s, t, r, now)
                     IN /\ edges' = out.edges
                        /\ now' = now + 1
                        /\ \E res \in out.results :
                              /\ call' = [op |-> "createRelationshipWithValidation",
                                          rel |-> r, sourceEntity |-> s,
                                          targetEntity |-> t, result |-> res]
                              /\ req' = [req EXCEPT
                                           !.processedRelationships =
                                               IF res.kind = "relationship"
                                               THEN Append(@, res) ELSE @,
                                           !.attemptedRelationships = @ + 1,
                                           !.persistedRelationships =
                                               IF res.kind = "relationship"
                                               THEN @ + 1 ELSE @,
                                           !.i = @ + 1]
    /\ UNCHANGED <<nodes, pc, hyb, served>>

\* a query of createRelationshipWithValidation rejects: its catch logs the error
\* and returns null, which the handler does not push
ReqRelateFails ==
    /\ req.pc = "relationships"
    /\ req.i <= Len(req.relationships)
    /\ LET relationship == req.relationships[req.i]
           sourceEntity == FindProcessed(req.processedEntities, relationship.source)
           targetEntity == FindProcessed(req.processedEntities, relationship.target)
       IN /\ sourceEntity.kind # "null"
          /\ targetEntity.kind # "null"
          /\ call' = [op |-> "createRelationshipWithValidation",
                      rel |-> Rel(sourceEntity.label, targetEntity.label,
                                  sourceEntity.type, targetEntity.type,
                                  relationship.type,
                                  RelationshipProperties(req, relationship)),
                      result |-> NullResult]
    /\ req' = [req EXCEPT !.attemptedRelationships = @ + 1,
                          !.storeFailed = TRUE,
                          !.i = AfterCaught(@, req.relationships)]
    /\ now' = now + 1
    /\ UNCHANGED <<nodes, edges, pc, hyb, served>>

\* the loop over the relationships ends: getAllEntitiesAndRelationships
ReqSnapshot ==
    /\ req.pc = "relationships"
    /\ req.i > Len(req.relationships)
    /\ \E snap \in GetAllEntitiesAndRelationships(nodes, edges) :
          /\ call' = [op |-> "getAllEntitiesAndRelationships",
                      result |-> [kind |-> "snapshot", entities |-> snap.entities,
                                  relationships |-> snap.relationships]]
          /\ req' = [req EXCEPT !.graphData = snap, !.pc = "close"]
    /\ now' = now + 1
    /\ UNCHANGED <<nodes, edges, pc, hyb, served>>

\* clearAllData or getAllEntitiesAndRelationships rejects: the service logs the
\* error and throws it again, nothing in the handler catches it before the catch
\* at the end of POST, which answers 500 with { error, details }
ReqStoreThrows ==
    /\ \/ req.pc = "clearRelationships"
       \/ req.pc = "relationships" /\ req.i > Len(req.relationships)
    /\ call' = [op |-> IF req.pc = "clearRelationships" THEN "clearAllData"
                       ELSE "getAllEntitiesAndRelationships",
                result |-> [kind |-> "throw"]]
    /\ LET r == [req EXCEPT !.storeFailed = TRUE]
       IN /\ req' = Thrown(r)
          /\ served' = Append(served, Response(r, 500, ErrorBody(r, "store")))
    /\ now' = now + 1
    /\ UNCHANGED <<nodes, edges, pc, hyb>>

\* await neo4jService.close(), and the response
ReqRespond ==
    /\ req.pc = "close"
    /\ req' = [req EXCEPT !.session = "closed", !.status = 200, !.pc = "responded"]
    /\ served' = Append(served, Response(req, 200, SuccessBody(req)))
    /\ UNCHANGED <<nodes, edges, now, pc, call, hyb>>

\* the texts a client posts
RequestTexts == {<<>>, <<"John", "likes", "Apple">>}

\* the values a client posts under the key text
RequestBodies ==
    {[type |-> "undefined"], [type |-> "number", value |-> 5]}
    \cup {[type |-> "string", value |-> text] : text \in RequestTexts}

\* the files a client posts: none, an empty one, one of characters that the
\* preprocessing removes, one with a sentence
Files ==
    {NoFile}
    \cup {[kind |-> "file", name |-> "notes.txt", rawText |-> rawText] :
             rawText \in {<<>>, <<"#">>, <<"John", "likes", "Apple">>}}

\* replies in which an entity lists another entity's label among its aliases
AliasReplies ==
    {[kind |-> "parsed",
      entities |-> <<Ent(<<"Bob">>, "COMPANY", 95, << <<"Apple">> >>, EmptyMap),
                     Ent(<<"Apple">>, "COMPANY", 90, <<>>, EmptyMap)>>,
      relationships |-> <<[source |-> <<"Apple">>, target |-> <<"Bob">>,
                           type |-> "LIKES", confidence |-> 90,
                           context |-> <<"Apple">>, properties |-> EmptyMap]>>]}

\* replies in which an entity's properties hold a key named label
ReservedKeyReplies ==
    {[kind |-> "parsed",
      entities |-> <<Ent(<<"Apple">>, "COMPANY", 95, <<>>, [label |-> <<"bob">>])>>,
      relationships |-> <<>>]}

\* the steps of a request after its receipt, the store answering every call
Steps ==
    \/ ReqClearRelationships
    \/ ReqClearNodes
    \/ ReqExtract
    \/ HybridGemini
    \/ HybridNotConfigured
    \/ HybridLocal
    \/ ReqExtracted
    \/ ReqUpsert
    \/ ReqEntitiesDone
    \/ ReqRelate
    \/ ReqSnapshot
    \/ ReqRespond

\* one step of a process-text request whose model replies come from the set replies
Handler(replies) ==
    \/ \E body \in RequestBodies, clearBefore \in BOOLEAN :
          \/ Receive(body, clearBefore, FALSE, [kind |-> "unavailable"])
          \/ \E reply \in replies : Receive(body, clearBefore, TRUE, reply)
    \/ Steps

NextPipeline == Handler(GeminiReplies \cup AliasReplies \cup ReservedKeyReplies)

SpecPipeline == Init /\ [][NextPipeline]_vars

NextReprocess == Handler(GeminiReplies \cup AliasReplies)

SpecReprocess == Init /\ [][NextReprocess]_vars

----------------------------------------------------------------------------
(* Both entrypoints, over a store whose calls may fail *)

\* the model answers with two entities and a relationship between them
ServiceReplies ==
    {reply \in GeminiReplies : reply.kind = "parsed" /\ Len(reply.entities) = 2}

NextService ==
    \/ \E body \in RequestBodies, clearBefore \in BOOLEAN :
          \/ Receive(body, clearBefore, FALSE, [kind |-> "unavailable"])
          \/ \E reply \in ServiceReplies : Receive(body, clearBefore, TRUE, reply)
    \/ \E file \in Files, clearBefore \in BOOLEAN :
          \/ FileReceive(file, clearBefore, FALSE, [kind |-> "unavailable"])
          \/ \E reply \in ServiceReplies : FileReceive(file, clearBefore, TRUE, reply)
    \/ FileRead
    \/ Steps
    \/ ReqUpsertFails
    \/ ReqRelateFails
    \/ ReqStoreThrows

SpecService == Init /\ [][NextService]_vars

----------------------------------------------------------------------------
(* The clear-graph entrypoint, next to the two processing entrypoints *)

\* POST of clear-graph: new EnhancedNeo4jService(), whose constructor opens the
\* driver and the session
ClearGraphReceive ==
    /\ req.pc \in {"idle", "responded"}
    /\ Len(served) < MaxRequests
    /\ \E configured \in BOOLEAN :
          /\ configured \in Environments
          /\ req' = [NewRequest("clear", <<>>, NoFile, TRUE, configured,
                                [kind |-> "unavailable"], FALSE)
                     EXCEPT !.pc = "clearGraphRelationships", !.session = "open"]
    /\ UNCHANGED <<nodes, edges, now, pc, call, hyb, served>>

\* await neo4jService.clearAllData(): the first query
ClearGraphRelationships ==
    /\ req.pc = "clearGraphRelationships"
    /\ edges' = DeleteAllRelationships(edges)
    /\ now' = now + 1
    /\ call' = [op |-> "clearAllData", result |-> [kind |-> "running"],
                relationshipsDeleted |-> Cardinality(edges), nodesDeleted |-> 0]
    /\ req' = [req EXCEPT !.pc = "clearGraphNodes"]
    /\ UNCHANGED <<nodes, pc, hyb, served>>

\* await neo4jService.clearAllData(): the second query
ClearGraphNodes ==
    /\ req.pc = "clearGraphNodes"
    /\ nodes' = DeleteAllNodes(nodes, edges)
    /\ call' = [call EXCEPT
                !.result = IF edges = {} THEN VoidResult ELSE [kind |-> "throw"],
                !.nodesDeleted = Cardinality(nodes) - Cardinality(nodes')]
    /\ req' = [req EXCEPT !.pc = "clearGraphClose"]
    /\ UNCHANGED <<edges, now, pc, hyb, served>>

\* clearAllData rejects: the catch of POST answers 500 and closes nothing
ClearGraphThrows ==
    /\ req.pc = "clearGraphRelationships"
    /\ call' = [op |-> "clearAllData", result |-> [kind |-> "throw"]]
    /\ LET r == [req EXCEPT !.storeFailed = TRUE]
       IN /\ req' = [r EXCEPT !.pc = "responded", !.status = 500]
          /\ served' = Append(served,
                              Response(r, 500, [error |-> "Failed to clear graph data",
                                                details |-> "store"]))
    /\ now' = now + 1
    /\ UNCHANGED <<nodes, edges, pc, hyb>>

\* await neo4jService.close(), and { success: true, message }
ClearGraphRespond ==
    /\ req.pc = "clearGraphClose"
    /\ req' = [req EXCEPT !.session = "closed", !.status = 200, !.pc = "responded"]
    /\ served' = Append(served,
                        Response(req, 200,
                                 [success |-> TRUE,
                                  message |-> "Graph data cleared successfully"]))
    /\ UNCHANGED <<nodes, edges, now, pc, call, hyb>>

NextSessions ==
    \/ \E body \in RequestBodies, clearBefore \in BOOLEAN :
          \/ Receive(body, clearBefore, FALSE, [kind |-> "unavailable"])
          \/ \E reply \in ServiceReplies : Receive(body, clearBefore, TRUE, reply)
    \/ \E file \in Files, clearBefore \in BOOLEAN :
          \/ FileReceive(file, clearBefore, FALSE, [kind |-> "unavailable"])
          \/ \E reply \in ServiceReplies : FileReceive(file, clearBefore, TRUE, reply)
    \/ ClearGraphReceive
    \/ ClearGraphRelationships
    \/ ClearGraphNodes
    \/ ClearGraphThrows
    \/ ClearGraphRespond
    \/ FileRead
    \/ Steps
    \/ ReqUpsertFails
    \/ ReqRelateFails
    \/ ReqStoreThrows

SpecSessions == Init /\ [][NextSessions]_vars

----------------------------------------------------------------------------
(* Requests that the client gives up *)

\* the client aborts the request while the handler runs: request.signal fires,
\* and the handler, which never reads it, goes on
Cancel ==
    /\ req.pc \notin {"idle", "responded"}
    /\ ~req.cancelled
    /\ req' = [req EXCEPT !.cancelled = TRUE]
    /\ UNCHANGED <<nodes, edges, now, pc, call, hyb, served>>

NextCancel ==
    \/ Handler(ServiceReplies)
    \/ Cancel

SpecCancel == Init /\ [][NextCancel]_vars

----------------------------------------------------------------------------
(* Two requests at once on one graph.  Each awaited query of a request is one *)
(* step, and the steps of the two requests interleave in any order; pc holds,  *)
(* for each request, the query it is about to send and what its earlier finds  *)
(* returned.                                                                   *)

Clients == {1, 2}

\* what both requests reconcile
SharedSource == Ent(<<"Apple">>, "COMPANY", 95, <<>>, EmptyMap)
SharedTarget == Ent(<<"Bob">>, "PERSON", 90, <<>>, EmptyMap)
SharedRel ==
    Rel(<<"Apple">>, <<"Bob">>, "COMPANY", "PERSON", "FOUNDED_BY", [confidence |-> 90])

InitConcurrent ==
    /\ nodes = {}
    /\ edges = {}
    /\ now = 0
    /\ pc = [c \in Clients |-> [at |-> "upsertSource", sourceEntity |-> NullResult,
                                targetEntity |-> NullResult]]
    /\ call = NoCall
    /\ hyb = HybridIdle
    /\ req = NoRequest
    /\ served = <<>>

\* createEntityWithMerge: one MERGE query
ConcUpsert(c) ==
    /\ pc[c].at \in {"upsertSource", "upsertTarget"}
    /\ LET entity == IF pc[c].at = "upsertSource" THEN SharedSource ELSE SharedTarget
       IN /\ nodes' = CreateEntityWithMerge(nodes, entity, now)
          /\ call' = [op |-> "createEntityWithMerge", entity |-> entity, client |-> c]
    /\ pc' = [pc EXCEPT ![c].at = IF @ = "upsertSource" THEN "upsertTarget"
                                  ELSE "findSource"]
    /\ now' = now + 1
    /\ UNCHANGED <<edges, hyb, req, served>>

\* createRelationshipWithValidation: the two findEntityByLabelAndType queries
ConcFind(c) ==
    /\ pc[c].at \in {"findSource", "findTarget"}
    /\ IF pc[c].at = "findSource"
       THEN \E s \in FindEntityByLabelAndType(nodes, SharedRel.sourceLabel,
                                              SharedRel.sourceType) :
               pc' = [pc EXCEPT ![c].sourceEntity = s, ![c].at = "findTarget"]
       ELSE \E t \in FindEntityByLabelAndType(nodes, SharedRel.targetLabel,
                                              SharedRel.targetType) :
               pc' = [pc EXCEPT ![c].targetEntity = t, ![c].at = "findRelationship"]
    /\ call' = [op |-> "findEntityByLabelAndType", client |-> c]
    /\ now' = now + 1
    /\ UNCHANGED <<nodes, edges, hyb, req, served>>

\* createRelationshipWithValidation: the findRelationship query, after the test
\* of the two entities
ConcFindRelationship(c) ==
    /\ pc[c].at = "findRelationship"
    /\ pc' = [pc EXCEPT ![c].at =
                IF \/ pc[c].sourceEntity.kind = "null"
                   \/ pc[c].targetEntity.kind = "null"
                   \/ FindRelationship(edges, pc[c].sourceEntity.id,
                                       pc[c].targetEntity.id, SharedRel.type)
                         # {NullResult}
                THEN "done" ELSE "create"]
    /\ call' = [op |-> "findRelationship", client |-> c]
    /\ now' = now + 1
    /\ UNCHANGED <<nodes, edges, hyb, req, served>>

\* createRelationshipWithValidation: the CREATE query
ConcCreate(c) ==
    /\ pc[c].at = "create"
    /\ edges' = edges \cup CreatedEdges(nodes, edges, SharedRel, now)
    /\ pc' = [pc EXCEPT ![c].at = "done"]
    /\ call' = [op |-> "createRelationshipWithValidation", client |-> c]
    /\ now' = now + 1
    /\ UNCHANGED <<nodes, hyb, req, served>>

NextConcurrent ==
    \E c \in Clients :
       \/ ConcUpsert(c)
       \/ ConcFind(c)
       \/ ConcFindRelationship(c)
       \/ ConcCreate(c)

SpecConcurrent == InitConcurrent /\ [][NextConcurrent]_vars

----------------------------------------------------------------------------
(* Requests to a model that may never answer.  Every continuation of the      *)
(* handler runs once the promise it awaits has settled, hence the weak        *)
(* fairness of the steps.                                                     *)

\* the model call never returns
PendingReplies == {[kind |-> "pending"]}

NextTimeout ==
    \/ Handler(GeminiReplies \cup PendingReplies)
    \/ HybridGeminiPending

SpecTimeout == Init /\ [][NextTimeout]_vars /\ WF_vars(NextTimeout)

----------------------------------------------------------------------------
(* Claims about the store *)

Max(a, b) == IF a > b THEN a ELSE b

\* the stored nodes a (label, type) resolves to: the label or an alias matches,
\* letter case ignored
Resolves(ns, label, type) ==
    {n \in ns : /\ n.type = type
                /\ \/ toLower(n.properties.label) = toLower(label)
                   \/ \E i \in DOMAIN n.properties.aliases :
                         toLower(n.properties.aliases[i]) = toLower(label)}

\* C1: the store holds at most one entity for each exact (label, type) pair
C1_OneEntityPerLabelType ==
    \A a, b \in nodes :
        (a.type = b.type /\ a.properties.label = b.properties.label) => a.id = b.id

\* C2: an upsert of a stored (label, type) leaves the stored confidence equal to
\* max(existing, incoming)
C2_ConfidenceIsMax ==
    [][call'.op = "createEntityWithMerge" =>
         \A n \in nodes :
            (n.type = call'.entity.type /\ n.properties.label = call'.entity.label) =>
                \E m \in nodes' :
                    /\ m.id = n.id
                    /\ m.properties.confidence =
                          Max(n.properties.confidence, call'.entity.confidence)]_vars

\* C3: the store holds at most one edge for each (source entity, relationship type,
\* target entity) triple
C3_OneEdgePerTriple ==
    \A e, f \in edges :
        (e.source = f.source /\ e.target = f.target /\ e.type = f.type) => e.id = f.id

\* C4: createRelationship whose source or target resolves to no stored entity returns
\* null without raising and leaves the stored entities and edges as they were
C4_NotFoundReturnsNull ==
    [][(/\ call'.op = "createRelationshipWithValidation"
        /\ \/ Resolves(nodes, call'.rel.sourceLabel, call'.rel.sourceType) = {}
           \/ Resolves(nodes, call'.rel.targetLabel, call'.rel.targetType) = {})
       => (call'.result.kind = "null" /\ nodes' = nodes /\ edges' = edges)]_vars

\* C4 witness: a call whose source is stored and whose target is not returned null
C4_Witness ==
    /\ call.op = "createRelationshipWithValidation"
    /\ call.result.kind = "null"
    /\ Resolves(nodes, call.rel.sourceLabel, call.rel.sourceType) # {}
    /\ Resolves(nodes, call.rel.targetLabel, call.rel.targetType) = {}

\* the nodes that carry exactly this (label, type)
Exactly(ns, label, type) == {n \in ns : n.type = type /\ n.properties.label = label}

\* the stored edges of a call's (source, type, target): those of its relationship
\* type from a node that carries the source (label, type) to one that carries the
\* target (label, type)
EdgesOf(ns, es, r) ==
    {e \in es : /\ e.type = r.type
                /\ e.source \in {n.id : n \in Exactly(ns, r.sourceLabel, r.sourceType)}
                /\ e.target \in {n.id : n \in Exactly(ns, r.targetLabel, r.targetType)}}

\* C6: createRelationship for a (source, type, target) whose edge already exists
\* returns that edge and changes no edge and no entity
C6_ExistingEdgeUnchanged ==
    [][(/\ call'.op = "createRelationshipWithValidation"
        /\ EdgesOf(nodes, edges, call'.rel) # {})
       => /\ edges' = edges
          /\ nodes' = nodes
          /\ call'.result.kind = "relationship"
          /\ \E e \in EdgesOf(nodes, edges, call'.rel) :
                call'.result.id = e.id /\ call'.result.properties = e.properties]_vars

NoDanglingEdge(ns, es) ==
    \A e \in es : \E a, b \in ns : a.id = e.source /\ b.id = e.target

\* C8: clearAllData deletes the relationships before any node: a step deletes a node
\* only when no relationship is stored, the state between its two queries and the
\* state a crash leaves there hold no relationship, and no stored edge ever refers
\* to a node that is gone
C8_EdgesBeforeNodes ==
    [][/\ (\E n \in nodes : \A m \in nodes' : m.id # n.id) => (edges = {} /\ edges' = {})
       /\ pc' = "clearing" => (edges' = {} /\ nodes' = nodes)
       /\ (call'.op = "clearAllData" /\ call'.result.kind = "crashed") =>
             (edges' = {} /\ nodes' = nodes)
       /\ NoDanglingEdge(nodes', edges')]_vars

\* C8 witness: a crash between the two queries, after relationships were deleted,
\* left nodes and no relationship
C8_Witness ==
    /\ call.op = "clearAllData"
    /\ call.result.kind = "crashed"
    /\ call.relationshipsDeleted > 0
    /\ nodes # {}
    /\ edges = {}

EmptySnapshot == [entities |-> <<>>, relationships |-> <<>>]

\* C9: when clearAllData completes it has not raised, the graph is empty, and the
\* snapshot is two empty lists, whatever the graph was before (empty or not)
C9_ClearThenSnapshotEmpty ==
    [][(pc = "clearing" /\ call'.op = "clearAllData" /\ call'.result.kind # "crashed")
       => /\ call'.result.kind = "void"
          /\ nodes' = {}
          /\ edges' = {}
          /\ GetAllEntitiesAndRelationships(nodes', edges') = {EmptySnapshot}]_vars

\* C9 witness: clearAllData completed on a graph that held nodes and relationships
C9_Witness ==
    /\ call.op = "clearAllData"
    /\ call.result.kind = "void"
    /\ call.relationshipsDeleted > 0
    /\ call.nodesDeleted > 0

----------------------------------------------------------------------------
(* Claims about the request handler and the coordinator *)

\* the stored label of the node with identity i
LabelOfNode(i) == (CHOOSE n \in nodes : n.id = i).properties.label

\* C5: no stored edge connects a source entity and a target entity whose labels
\* are equal after case-folding, whatever requests have been processed.
C5_NoEdgeBetweenEqualLabels ==
    \A e \in edges : toLower(LabelOfNode(e.source)) # toLower(LabelOfNode(e.target))

\* two requests answered one after the other, the second without clearing, for the
\* same text and with the same candidates from the extraction
SameInputTwice(first, second) ==
    /\ first.status = 200
    /\ second.status = 200
    /\ ~second.clearBefore
    /\ second.text = first.text
    /\ second.entities = first.entities
    /\ second.relationships = first.relationships

\* C7: processing the same input a second time without clearing, the extraction
\* returning the same candidates, leaves the same stored entities and the same
\* stored edges as the first time: the second request adds no node and no edge.
C7_ReprocessingAddsNothing ==
    \A k \in 2..Len(served) :
        SameInputTwice(served[k - 1], served[k])
        => /\ served[k].nodeIds = served[k - 1].nodeIds
           /\ served[k].edgeIds = served[k - 1].edgeIds

\* the coordinator has returned, Gemini was configured and gave no entity and no
\* relationship
ExternalEmpty ==
    /\ hyb.pc = "done"
    /\ hyb.configured
    /\ hyb.external.kind = "result"
    /\ hyb.external.entities = <<>>
    /\ hyb.external.relationships = <<>>

\* the item carries the provenance marker of the local method
TaggedLocal(item) ==
    /\ "processingMethod" \in DOMAIN item.properties
    /\ item.properties.processingMethod = "local"

\* C10: when External is configured and yields zero entities and zero
\* relationships, the coordinator's result holds exactly the entities and the
\* relationships Local returns on the same text (same labels, types, confidences
\* and order), each of them tagged processingMethod = local.
C10_EmptyExternalGivesLocal ==
    ExternalEmpty
    => LET local == LocalExtract(hyb.text)
           result == hyb.result
       IN /\ Len(result.entities) = Len(local.entities)
          /\ Len(result.relationships) = Len(local.relationships)
          /\ \A i \in DOMAIN local.entities :
                /\ result.entities[i].label = local.entities[i].label
                /\ result.entities[i].type = local.entities[i].type
                /\ result.entities[i].confidence = local.entities[i].confidence
                /\ TaggedLocal(result.entities[i])
          /\ \A i \in DOMAIN local.relationships :
                /\ result.relationships[i].source = local.relationships[i].source
                /\ result.relationships[i].target = local.relationships[i].target
                /\ result.relationships[i].type = local.relationships[i].type
                /\ result.relationships[i].confidence = local.relationships[i].confidence
                /\ TaggedLocal(result.relationships[i])

\* Gemini answered with candidates that its filters all dropped, and Local found
\* two entities and a relationship between them in the text
C10_Witness ==
    /\ ExternalEmpty
    /\ hyb.reply.kind = "parsed"
    /\ hyb.reply.entities # <<>>
    /\ hyb.result.relationships # <<>>
    /\ Len(hyb.result.entities) = 2

\* Gemini returned a result with at least one entity or one relationship
ExternalHasItems ==
    /\ hyb.external.kind = "result"
    /\ hyb.external.entities # <<>> \/ hyb.external.relationships # <<>>

\* C11: in one call the coordinator invokes External at most once and Local at
\* most once, never invokes External when it is not configured, returns External's
\* result unchanged without invoking Local when External returned an entity or a
\* relationship, and its result is wholly External's or wholly Local's.
C11_FixedPriorityNoMixing ==
    hyb.pc # "idle"
    => /\ hyb.geminiCalls <= 1
       /\ hyb.localCalls <= 1
       /\ ~hyb.configured => hyb.geminiCalls = 0
       /\ hyb.pc = "done" /\ ExternalHasItems
          => /\ hyb.result = hyb.external
             /\ hyb.localCalls = 0
       /\ hyb.pc = "done"
          => \/ /\ hyb.localCalls = 0
                /\ hyb.geminiCalls = 1
                /\ hyb.result = hyb.external
             \/ /\ hyb.localCalls = 1
                /\ ~ExternalHasItems
                /\ Len(hyb.result.entities) = Len(hyb.local.entities)
                /\ Len(hyb.result.relationships) = Len(hyb.local.relationships)
                /\ \A i \in DOMAIN hyb.result.entities :
                      /\ hyb.result.entities[i].label = hyb.local.entities[i].label
                      /\ TaggedLocal(hyb.result.entities[i])
                /\ \A i \in DOMAIN hyb.result.relationships :
                      /\ hyb.result.relationships[i].source
                            = hyb.local.relationships[i].source
                      /\ TaggedLocal(hyb.result.relationships[i])

\* Gemini was called once, returned entities and a relationship, and the
\* coordinator has returned without calling Local
C11_Witness ==
    /\ hyb.pc = "done"
    /\ hyb.geminiCalls = 1
    /\ hyb.localCalls = 0
    /\ hyb.external.kind = "result"
    /\ hyb.external.entities # <<>>
    /\ hyb.external.relationships # <<>>

\* the External strategy failed: the call was rejected, the reply had no content,
\* was not JSON, was not made of lists, or held an entity without a type
ExternalFailed(reply) ==
    \/ reply.kind \in {"unavailable", "noContent", "notJson", "misshapen"}
    \/ /\ reply.kind = "parsed"
       /\ \E i \in DOMAIN reply.entities : reply.entities[i].type = "undefined"

\* C12: whatever way the External strategy fails (transport error, empty reply,
\* reply that is not valid structured data, parsed reply of the wrong shape), the
\* coordinator returns normally and its result is the Local strategy's result.
C12_ExternalFailureFallsBack ==
    hyb.pc = "done" /\ hyb.configured /\ ExternalFailed(hyb.reply)
    => /\ hyb.localCalls = 1
       /\ hyb.result.kind = "result"
       /\ hyb.result.entities
             = enhanceLocalResults(LocalExtract(hyb.text), hyb.text).entities
       /\ hyb.result.relationships
             = enhanceLocalResults(LocalExtract(hyb.text), hyb.text).relationships

\* C13: a request whose External model call never returns still completes: the
\* call is cut by a timeout, the coordinator falls back to Local and the request
\* is answered.
C13_PendingCallTimesOut == (req.pc = "extracting") ~> (req.pc = "responded")

\* C14: a request whose input is empty or invalid (no text, a text that is not a
\* string, an empty text, no file, a file with no text left after preprocessing)
\* changes nothing in the stored graph: none of its steps deletes or writes a
\* node or an edge, whatever its clearBefore option.
C14_InvalidInputLeavesGraph ==
    [][(req'.pc # "idle" /\ req'.invalid) => (nodes' = nodes /\ edges' = edges)]_vars

\* C15: in every response, each extracted entity and each extracted relationship
\* has been taken up by its loop whatever failed before it, and the counts of a
\* response that carries counts are the numbers of entities and of relationships
\* that the store took.
C15_FailuresAreIsolated ==
    \A k \in DOMAIN served :
        /\ served[k].attemptedEntities = served[k].extractedEntities
        /\ served[k].attemptedRelationships = served[k].extractedRelationships
        /\ "entitiesCount" \in DOMAIN served[k].body
           => /\ served[k].body.entitiesCount = served[k].persistedEntities
              /\ served[k].body.relationshipsCount = served[k].persistedRelationships

\* a request is answered after one of its two upserts failed and the other one
\* stored its entity
C15_Witness ==
    \E k \in DOMAIN served :
        /\ served[k].status = 200
        /\ served[k].storeFailed
        /\ served[k].extractedEntities = 2
        /\ served[k].persistedEntities = 1
        /\ served[k].body.entitiesCount = 1

\* C16: a request during which a store call failed is answered as a failure, and
\* the answer carries the counts of the entities and relationships that were
\* stored; no item is handed to the store a second time.
C16_StoreFailureReported ==
    \A k \in DOMAIN served :
        served[k].storeFailed
        => /\ served[k].status >= 500
           /\ {"entitiesCount", "relationshipsCount"} \subseteq DOMAIN served[k].body
           /\ served[k].attemptedEntities <= served[k].extractedEntities
           /\ served[k].attemptedRelationships <= served[k].extractedRelationships

\* C17: the processingMethod of every response that carries one names the
\* strategy whose result the coordinator returned: local when the result came
\* from the Local strategy, gemini when it came from Gemini.
C17_MethodTagNamesStrategy ==
    \A k \in DOMAIN served :
        "processingMethod" \in DOMAIN served[k].body
        => served[k].body.processingMethod = served[k].strategy

\* C18: an upsert of a stored (label, type) leaves the stored aliases equal to the
\* union of the previous aliases and the incoming ones: each alias of either list
\* is there, and none is there twice.
C18_AliasesAreUnion ==
    [][call'.op = "createEntityWithMerge" =>
         \A n \in nodes :
            (n.type = call'.entity.type /\ n.properties.label = call'.entity.label) =>
                \E m \in nodes' :
                    /\ m.id = n.id
                    /\ SeqToSet(m.properties.aliases) =
                          SeqToSet(n.properties.aliases)
                          \cup SeqToSet(call'.entity.aliases)
                    /\ Len(m.properties.aliases) =
                          Cardinality(SeqToSet(m.properties.aliases))]_vars

\* the keys of a stored node that the MERGE query sets by itself on a match
MergeControlled == {"confidence", "aliases", "updated_at"}

\* C19: an upsert of a stored (label, type) gives every key of the incoming
\* properties map its incoming value, leaves every other stored property as it
\* was, and sets the update timestamp to the time of the call; an upsert of a
\* (label, type) that is not stored creates an entity with the candidate's label,
\* type, confidence, aliases and properties.
C19_ShallowMergeAndFirstWrite ==
    [][call'.op = "createEntityWithMerge" =>
         LET entity == call'.entity
             stored == {n \in nodes : /\ n.type = entity.type
                                      /\ n.properties.label = entity.label}
         IN IF stored = {}
            THEN \E m \in nodes' \ nodes :
                    /\ m.type = entity.type
                    /\ m.properties.label = entity.label
                    /\ m.properties.confidence = entity.confidence
                    /\ m.properties.aliases = entity.aliases
                    /\ \A k \in DOMAIN entity.properties :
                          m.properties[k] = entity.properties[k]
            ELSE \A n \in stored :
                    \E m \in nodes' :
                       /\ m.id = n.id
                       /\ \A k \in DOMAIN entity.properties :
                             m.properties[k] = entity.properties[k]
                       /\ \A k \in DOMAIN n.properties
                                   \ (DOMAIN entity.properties \cup MergeControlled) :
                             m.properties[k] = n.properties[k]
                       /\ m.properties.updated_at = now]_vars

\* every relationship of the result runs between two entities of the result,
\* letter case ignored, and not from an entity to itself
EndpointsSurvive(result) ==
    LET kept == {toLower(result.entities[i].label) : i \in DOMAIN result.entities}
    IN \A i \in DOMAIN result.relationships :
          /\ toLower(result.relationships[i].source) \in kept
          /\ toLower(result.relationships[i].target) \in kept
          /\ toLower(result.relationships[i].source)
                # toLower(result.relationships[i].target)

\* C20: in the result of the Gemini strategy and in the result of the Local
\* strategy, the source and the target of every relationship are, letter case
\* ignored, labels of entities of that same result, and they differ.
C20_EndpointsSurviveFiltering ==
    hyb.pc # "idle" =>
        /\ hyb.external.kind = "result" => EndpointsSurvive(hyb.external)
        /\ hyb.local.kind = "result" => EndpointsSurvive(hyb.local)

----------------------------------------------------------------------------
(* Claims about the two strategies *)

\* what the rule groups match in a text, in the order of the groups: the typed
\* rules, the pass over the capitalized words, the pass over the lowercase words
Candidates(text) ==
    PatternCandidates(text) \o CapitalizedCandidates(text) \o NounCandidates(text)

\* the first match, in the order of the groups, of a lowercased label
FirstCandidate(candidates, normalized) ==
    candidates[CHOOSE k \in DOMAIN candidates :
                   /\ candidates[k].normalized = normalized
                   /\ \A j \in 1..(k - 1) : candidates[j].normalized # normalized]

\* C21: the entities of a Local result have pairwise different labels, letter
\* case ignored, and each has the type and the confidence of the first rule
\* group, in the fixed order of the groups, that matches its label.
C21_FirstGroupClaimsLabel ==
    (hyb.pc # "idle" /\ hyb.local.kind = "result") =>
        \E candidates \in {Candidates(hyb.text)} :
           LET entities == hyb.local.entities
           IN /\ \A i, j \in DOMAIN entities :
                    toLower(entities[i].label) = toLower(entities[j].label) => i = j
              /\ \A i \in DOMAIN entities :
                    \E first \in {FirstCandidate(candidates, toLower(entities[i].label))} :
                       /\ entities[i].type = first.entity.type
                       /\ entities[i].confidence = first.entity.confidence

\* Local has returned an entity whose label rules of several groups match, with
\* different types
C21_Witness ==
    /\ hyb.pc # "idle"
    /\ hyb.local.kind = "result"
    /\ \E candidates \in {Candidates(hyb.text)} :
          \E i \in DOMAIN hyb.local.entities, a, b \in DOMAIN candidates :
             /\ candidates[a].normalized = toLower(hyb.local.entities[i].label)
             /\ candidates[b].normalized = toLower(hyb.local.entities[i].label)
             /\ candidates[a].entity.type # candidates[b].entity.type
             /\ candidates[a].entity.confidence # candidates[b].entity.confidence

\* the labels of the generic denylist: a function word, a single letter, a numeral
GenericLabel(label) ==
    /\ Len(label) = 1
    /\ \/ LowerWord(label[1]) \in {"a", "an", "the", "this", "that"}
       \/ label[1] \in Numerals
       \/ Len(label[1]) = 1

NoGenericEntity(result) ==
    \A i \in DOMAIN result.entities : ~GenericLabel(result.entities[i].label)

\* C22: no entity of the result of the Gemini strategy, and no entity of the
\* result of the Local strategy, has a label of the generic denylist.
C22_NoGenericLabel ==
    hyb.pc # "idle" =>
        /\ hyb.external.kind = "result" => NoGenericEntity(hyb.external)
        /\ hyb.local.kind = "result" => NoGenericEntity(hyb.local)

LabelsAreLong(result) ==
    \A i \in DOMAIN result.entities : Length(result.entities[i].label) > 1

\* C23: every entity of the result of the Gemini strategy, and every entity of
\* the result of the Local strategy, has a label of more than one character.
C23_LabelLongerThanOne ==
    hyb.pc # "idle" =>
        /\ hyb.external.kind = "result" => LabelsAreLong(hyb.external)
        /\ hyb.local.kind = "result" => LabelsAreLong(hyb.local)

\* the floor of the Gemini strategy, in hundredths
ConfidenceFloor == 70

\* C24: every relationship of the result of the Gemini strategy has a confidence
\* of at least 0.7; the result of the Local strategy holds every relationship
\* that its rules found between its entities, whatever its confidence.
C24_GeminiFloor ==
    hyb.pc # "idle" =>
        /\ hyb.external.kind = "result" =>
              \A i \in DOMAIN hyb.external.relationships :
                 hyb.external.relationships[i].confidence >= ConfidenceFloor
        /\ hyb.local.kind = "result" =>
              \E entities \in {extractEntities(hyb.text)} :
                 hyb.local.relationships = extractRelationships(hyb.text, entities)

\* Gemini has answered with a relationship below the floor between two of its
\* entities, and its result keeps another relationship
C24_Witness ==
    /\ hyb.pc # "idle"
    /\ hyb.external.kind = "result"
    /\ hyb.external.relationships # <<>>
    /\ \E i \in DOMAIN hyb.reply.relationships :
          /\ hyb.reply.relationships[i].confidence < ConfidenceFloor
          /\ BetweenEntities(hyb.reply.relationships[i], hyb.reply.entities)

----------------------------------------------------------------------------
(* Claims about the handlers, continued *)

\* C25: once a request is cancelled, none of its steps writes to the store: the
\* stored entities and edges stay as they were at the cancellation.
C25_NoWriteAfterCancel ==
    [][(req.pc # "idle" /\ req.cancelled) => (nodes' = nodes /\ edges' = edges)]_vars

----------------------------------------------------------------------------
(* Claims about the store, continued *)

\* C26: a snapshot lists every stored entity once and every stored edge once; its
\* entities come by confidence, highest first, those of equal confidence by
\* label, and its relationships come by confidence, highest first.
C26_SnapshotCompleteAndOrdered ==
    [][(call'.op = "getAllEntitiesAndRelationships" /\ call'.result.kind = "snapshot") =>
         LET entities == call'.result.entities
             relationships == call'.result.relationships
         IN /\ {entities[i].id : i \in DOMAIN entities} = {n.id : n \in nodes'}
            /\ Len(entities) = Cardinality(nodes')
            /\ {relationships[i].id : i \in DOMAIN relationships} = {e.id : e \in edges'}
            /\ Len(relationships) = Cardinality(edges')
            /\ \A i, j \in DOMAIN entities :
                  i < j => \/ entities[i].confidence > entities[j].confidence
                           \/ /\ entities[i].confidence = entities[j].confidence
                              /\ StringLeq(entities[i].label, entities[j].label)
            /\ \A i, j \in DOMAIN relationships :
                  i < j => relationships[i].confidence >= relationships[j].confidence]_vars

\* C27: when two requests that reconcile the same entities and the same
\* relationship have both finished, whatever the order in which their store
\* calls ran, the graph holds one such source entity, one such target entity and
\* one such edge.
C27_ConcurrentRequestsOneEdge ==
    (\A c \in Clients : pc[c].at = "done") =>
        /\ Cardinality(MergeMatches(nodes, SharedSource.type, SharedSource.label)) = 1
        /\ Cardinality(MergeMatches(nodes, SharedTarget.type, SharedTarget.label)) = 1
        /\ Cardinality({e \in edges : e.type = SharedRel.type}) = 1

\* C28: a createRelationship call whose two lookups found the stored entities S
\* and T returns an edge from S to T, and every edge it creates runs from S to T.
C28_EdgeBetweenResolved ==
    [][(/\ call'.op = "createRelationshipWithValidation"
        /\ call'.sourceEntity.kind # "null"
        /\ call'.targetEntity.kind # "null")
       => /\ call'.result.kind = "relationship"
          /\ call'.result.source = call'.sourceEntity.id
          /\ call'.result.target = call'.targetEntity.id
          /\ \A e \in edges' \ edges :
                e.source = call'.sourceEntity.id /\ e.target = call'.targetEntity.id]_vars

\* C29: after an upsert, whatever the keys of its properties map, the entity it
\* wrote has the label of the call, the larger of the confidence it had and the
\* confidence of the call, and the aliases it had together with those of the call.
C29_PropertiesLeaveFields ==
    [][call'.op = "createEntityWithMerge" =>
         LET entity == call'.entity
             stored == MergeMatches(nodes, entity.type, entity.label)
         IN IF stored = {}
            THEN \E m \in nodes' \ nodes :
                    /\ m.properties.label = entity.label
                    /\ m.properties.confidence = entity.confidence
                    /\ SeqToSet(m.properties.aliases) = SeqToSet(entity.aliases)
            ELSE \A n \in stored :
                    \E m \in nodes' :
                       /\ m.id = n.id
                       /\ m.properties.label = entity.label
                       /\ m.properties.confidence =
                             Max(n.properties.confidence, entity.confidence)
                       /\ SeqToSet(m.properties.aliases) =
                             SeqToSet(n.properties.aliases) \cup SeqToSet(entity.aliases)]_vars

\* C30: a request that has been answered holds no open store session, whichever
\* of process-text, process-file and clear-graph it called and whether it was
\* answered with its result or with an error.
C30_SessionClosedAtResponse ==
    req.pc = "responded" => req.session # "open"

====
